---------------------------- MODULE Spec2Model ----------------------------
(***************************************************************************)
(* Buckit / hfxgas.ca: the prediction pipeline of the Cloudflare Worker.   *)
(*                                                                         *)
(*   src/src/index.js   parseAdjustment, parseRedditPost, writePrediction, *)
(*                      handleWebhook, scheduled                           *)
(*   src/mcp/server.js  BuckitMCP.post_prediction, trigger_reddit_scan     *)
(*                                                                         *)
(* Text is modelled as TLA+ strings and the regular expressions of the     *)
(* source are written out character by character.  Decimal numbers are     *)
(* integers scaled by Scale (1.621 is 162100), so that the cents-to-dollars*)
(* division by 100 of up to three fractional digits is exact.              *)
(*                                                                         *)
(* Record constructors list their fields in the order TLC keeps them (the  *)
(* order in which the names first occur in this module), so that no worker *)
(* of TLC ever has to reorder a record another worker is reading.          *)
(***************************************************************************)
EXTENDS Integers, Sequences, FiniteSets, TLC

VARIABLES
    kv,        \* the PREDICTIONS KV namespace: one field per key
    clock,     \* the instant new Date() returns
    aiRuns,    \* the number of env.AI.run calls made so far
    images,    \* the set of R2 keys written to env.IMAGES
    last,      \* the last operation: its input and its outcome
    pin,       \* parser harness: the post under test
    pout       \* parser harness: what parseRedditPost returned for pin

vars == <<kv, clock, aiRuns, images, last, pin, pout>>

(***************************************************************************)
(* Bounds of the model.                                                    *)
(***************************************************************************)
MAX_HISTORY == 2     \* env.MAX_HISTORY (deployment setting, default '10')
MaxClock == 3        \* the number of clock ticks (handled operations that write)
MaxLines == 2        \* lines of selftext of the posts of the parser harness

NOTES_MAX == 500     \* notes are cut to 500 characters

RECURSIVE Pow10(_)
Pow10(k) == IF k <= 0 THEN 1 ELSE 10 * Pow10(k - 1)

FracDigits == 2 + 3  \* three fractional digits, two more for the division by 100
Scale == Pow10(FracDigits)

(***************************************************************************)
(* JavaScript values.  t is the typeof/JSON tag; s carries a string, n a   *)
(* number (scaled).  NaN is a number whose s is "NaN".                     *)
(***************************************************************************)
JUndef == [t |-> "undefined", s |-> "", n |-> 0]
JNull == [t |-> "null", s |-> "", n |-> 0]
JNaN == [t |-> "number", s |-> "NaN", n |-> 0]
JNum(x) == [t |-> "number", s |-> "", n |-> x]
JStr(x) == [t |-> "string", s |-> x, n |-> 0]
JBool(b) == [t |-> "boolean", s |-> IF b THEN "true" ELSE "false", n |-> 0]
JArray(items) == [t |-> "array", items |-> items]

IsNullish(v) == v.t \in {"undefined", "null"}
\* typeof v !== 'number' || isNaN(v)
NotANumber(v) == v.t # "number" \/ v.s = "NaN"
\* a ?? b
Coalesce(a, b) == IF IsNullish(a) THEN b ELSE a

(***************************************************************************)
(* Characters and strings.                                                 *)
(***************************************************************************)
Ch(s, i) == SubSeq(s, i, i)

Upper == "ABCDEFGHIJKLMNOPQRSTUVWXYZ"
Lower == "abcdefghijklmnopqrstuvwxyz"
Digits == "0123456789"

IndexIn(c, alphabet) ==
    IF \E i \in 1..Len(alphabet) : Ch(alphabet, i) = c
    THEN CHOOSE i \in 1..Len(alphabet) : Ch(alphabet, i) = c
    ELSE 0

IsDigit(c) == IndexIn(c, Digits) > 0
DigitVal(c) == IndexIn(c, Digits) - 1
\* \s
IsSpace(c) == c \in {" ", "\t", "\n", "\r", "\f"}
\* \w
IsWordCh(c) == IndexIn(c, Upper) > 0 \/ IndexIn(c, Lower) > 0 \/ IsDigit(c) \/ c = "_"
\* [\d.]
IsNumCh(c) == IsDigit(c) \/ c = "."
\* . (anything but a line terminator)
IsDot(c) == c \notin {"\n", "\r"}

ToLowerCh(c) == IF IndexIn(c, Upper) > 0 THEN Ch(Lower, IndexIn(c, Upper)) ELSE c

\* s.toLowerCase(), by halves
RECURSIVE ToLower(_)
ToLower(s) ==
    IF Len(s) = 0 THEN ""
    ELSE IF Len(s) = 1 THEN ToLowerCh(s)
    ELSE LET h == Len(s) \div 2
         IN  ToLower(SubSeq(s, 1, h)) \o ToLower(SubSeq(s, h + 1, Len(s)))

RECURSIVE TrimStart(_)
TrimStart(s) == IF Len(s) > 0 /\ IsSpace(Head(s)) THEN TrimStart(Tail(s)) ELSE s

RECURSIVE TrimEnd(_)
TrimEnd(s) ==
    IF Len(s) > 0 /\ IsSpace(Ch(s, Len(s))) THEN TrimEnd(SubSeq(s, 1, Len(s) - 1)) ELSE s

Trim(s) == TrimEnd(TrimStart(s))

\* s.slice(0, n)
Slice(s, n) == IF Len(s) > n THEN SubSeq(s, 1, n) ELSE s

\* the literal lit stands at position i of s
HasAt(s, i, lit) ==
    /\ i >= 1
    /\ i + Len(lit) - 1 <= Len(s)
    /\ SubSeq(s, i, i + Len(lit) - 1) = lit

\* the position of the first c of s at or after from, 0 when there is none
IndexOf(s, c, from) ==
    IF \E i \in from..Len(s) : Ch(s, i) = c
    THEN CHOOSE i \in from..Len(s) : Ch(s, i) = c /\ \A h \in from..(i - 1) : Ch(s, h) # c
    ELSE 0

Contains(s, lit) == \E i \in 1..Len(s) : HasAt(s, i, lit)
StartsWith(s, lit) == HasAt(s, 1, lit)

\* the first position >= i of s that holds no whitespace (Len(s)+1 at the end)
RECURSIVE SkipSpace(_, _)
SkipSpace(s, i) == IF i <= Len(s) /\ IsSpace(Ch(s, i)) THEN SkipSpace(s, i + 1) ELSE i

\* the first position >= i of s that holds no character of [\d.]
RECURSIVE SkipNum(_, _)
SkipNum(s, i) == IF i <= Len(s) /\ IsNumCh(Ch(s, i)) THEN SkipNum(s, i + 1) ELSE i

\* the first position >= i of s that holds no digit
RECURSIVE SkipDigits(_, _)
SkipDigits(s, i) == IF i <= Len(s) /\ IsDigit(Ch(s, i)) THEN SkipDigits(s, i + 1) ELSE i

\* \b at the gap before position i
WordBoundary(s, i) ==
    LET before == i > 1 /\ i - 1 <= Len(s) /\ IsWordCh(Ch(s, i - 1))
        after == i >= 1 /\ i <= Len(s) /\ IsWordCh(Ch(s, i))
    IN  before # after

\* /\bword\b/.test(s)
HasWord(s, word) ==
    \E i \in 1..Len(s) :
        HasAt(s, i, word) /\ WordBoundary(s, i) /\ WordBoundary(s, i + Len(word))

\* /no.?change/.test(s)
HasNoChange(s) ==
    \E i \in 1..Len(s) :
        /\ HasAt(s, i, "no")
        /\ \/ HasAt(s, i + 2, "change")
           \/ i + 2 <= Len(s) /\ IsDot(Ch(s, i + 2)) /\ HasAt(s, i + 3, "change")

\* the value of the digits of s from position i up to j - 1
RECURSIVE DigitsValue(_, _, _)
DigitsValue(s, i, j) ==
    IF j <= i THEN 0 ELSE DigitsValue(s, i, j - 1) * 10 + DigitVal(Ch(s, j - 1))

\* parseFloat of a string of digits and dots: the longest prefix
\* digits [. digits] holding a digit; NaN when that prefix holds no digit.
\* Fractional digits beyond those Scale can hold are dropped.
ParseFloat(str) ==
    LET s == TrimStart(str)
        intEnd == SkipDigits(s, 1)
        hasDot == intEnd <= Len(s) /\ Ch(s, intEnd) = "."
        fracEnd == IF hasDot THEN SkipDigits(s, intEnd + 1) ELSE intEnd
        fracLen == IF hasDot THEN fracEnd - intEnd - 1 ELSE 0
        kept == IF fracLen > FracDigits THEN FracDigits ELSE fracLen
        intVal == DigitsValue(s, 1, intEnd)
        fracVal == IF hasDot THEN DigitsValue(s, intEnd + 1, intEnd + 1 + kept) ELSE 0
    IN  IF intEnd = 1 /\ fracLen = 0
        THEN JNaN
        ELSE JNum(intVal * Scale + fracVal * Pow10(FracDigits - kept))

(***************************************************************************)
(* parseAdjustment (src/src/index.js:193-201).                             *)
(***************************************************************************)
\* a bug: exactly one white-space character between the word and the number
MatchUpDownOneSpace(s) ==
    LET word == IF StartsWith(s, "up") THEN "up"
                ELSE IF StartsWith(s, "down") THEN "down" ELSE ""
        num == Len(word) + 2
        numEnd == SkipNum(s, num)
    IN  IF word # "" /\ IsSpace(Ch(s, num - 1)) /\ numEnd > num
        THEN [word |-> word, ok |-> TRUE, number |-> SubSeq(s, num, numEnd - 1)]
        ELSE [word |-> "", ok |-> FALSE, number |-> ""]

\* s.match(/^(up|down)\s+([\d.]+)/): the two groups, or ok = FALSE
MatchUpDownNumber(s) ==
    LET word == IF StartsWith(s, "up") THEN "up"
                ELSE IF StartsWith(s, "down") THEN "down" ELSE ""
        sp == Len(word) + 1
        num == SkipSpace(s, sp)
        numEnd == SkipNum(s, num)
    IN  IF word # "" /\ num > sp /\ numEnd > num
        THEN [word |-> word, ok |-> TRUE, number |-> SubSeq(s, num, numEnd - 1)]
        ELSE [word |-> "", ok |-> FALSE, number |-> ""]

parseAdjustment(adj) ==
    LET s == ToLower(Trim(adj))
        m == MatchUpDownNumber(s)
    IN  IF HasNoChange(s) THEN [direction |-> JStr("no-change"), adjustment |-> JNum(0)]
        ELSE IF m.ok
        THEN [direction |-> JStr(IF m.word = "up" THEN "up" ELSE "down"),
              adjustment |-> ParseFloat(m.number)]
        ELSE IF HasWord(s, "up") THEN [direction |-> JStr("up"), adjustment |-> JNull]
        ELSE IF HasWord(s, "down") THEN [direction |-> JStr("down"), adjustment |-> JNull]
        ELSE [direction |-> JNull, adjustment |-> JNull]

(***************************************************************************)
(* parseRedditPost (src/src/index.js:224-286).                             *)
(***************************************************************************)
\* a fuel slot { direction, adjustment, price }
Slot(direction, adjustment, price) ==
    [t |-> "object", direction |-> direction, adjustment |-> adjustment, price |-> price]

\* (regular|gas(?:oline)?|diesel) at position j of the lower-cased text
RowTypeAt(lower, j) ==
    IF HasAt(lower, j, "regular") THEN "regular"
    ELSE IF HasAt(lower, j, "gasoline") THEN "gasoline"
    ELSE IF HasAt(lower, j, "gas") THEN "gas"
    ELSE IF HasAt(lower, j, "diesel") THEN "diesel"
    ELSE ""

\* tableRowRe anchored at position i:
\*   \|\s*(regular|gas(?:oline)?|diesel)\s*\|\s*([^|]+)\|\s*([\d.]+)\s*\|   (flags gi)
\* next is the regular expression's lastIndex after the match.
MatchRowAt(s, lower, i) ==
    LET j == SkipSpace(s, i + 1)
        ty == RowTypeAt(lower, j)
        k == SkipSpace(s, j + Len(ty))
        p == IndexOf(s, "|", k + 1)
        cell == SkipSpace(s, k + 1)
        \* \s* is greedy but leaves [^|]+ one character of a blank cell
        adjFrom == IF cell >= p THEN p - 1 ELSE cell
        m == SkipSpace(s, p + 1)
        n == SkipNum(s, m)
        q == SkipSpace(s, n)
    IN  IF /\ HasAt(s, i, "|")
           /\ ty # ""
           /\ HasAt(s, k, "|")
           /\ p > k + 1
           /\ n > m
           /\ HasAt(s, q, "|")
        THEN [ok |-> TRUE, next |-> q + 1, type |-> ty,
              adjRaw |-> SubSeq(s, adjFrom, p - 1), priceRaw |-> SubSeq(s, m, n - 1)]
        ELSE [ok |-> FALSE, next |-> i + 1, type |-> "", adjRaw |-> "", priceRaw |-> ""]

\* a bug: a price of exactly 10 is taken as cents
PriceInDollarsFromTen(priceRaw) ==
    IF priceRaw.s = "NaN" THEN JNull
    ELSE IF priceRaw.n >= 10 * Scale THEN JNum(priceRaw.n \div 100)
    ELSE priceRaw

\* priceRaw > 10 ? priceRaw / 100 : priceRaw, and null for NaN
PriceInDollars(priceRaw) ==
    IF priceRaw.s = "NaN" THEN JNull
    ELSE IF priceRaw.n > 10 * Scale THEN JNum(priceRaw.n \div 100)
    ELSE priceRaw

\* the slot a matched row assigns
RowSlot(row) ==
    LET parsed == parseAdjustment(row.adjRaw)
    IN  Slot(parsed.direction, parsed.adjustment, PriceInDollars(ParseFloat(row.priceRaw)))

\* a bug: a row does not overwrite a slot an earlier row has filled
RECURSIVE ScanRowsFirstWins(_, _, _, _)
ScanRowsFirstWins(s, lower, from, acc) ==
    IF IndexOf(s, "|", from) = 0 THEN acc
    ELSE LET i == IndexOf(s, "|", from)
             row == MatchRowAt(s, lower, i)
         IN  IF ~row.ok THEN ScanRowsFirstWins(s, lower, i + 1, acc)
             ELSE IF row.type = "diesel"
             THEN ScanRowsFirstWins(s, lower, row.next,
                      IF acc.diesel = JNull THEN [acc EXCEPT !.diesel = RowSlot(row)] ELSE acc)
             ELSE ScanRowsFirstWins(s, lower, row.next,
                      IF acc.gas = JNull THEN [acc EXCEPT !.gas = RowSlot(row)] ELSE acc)

\* the while loop over tableRowRe.exec(fullText), from lastIndex from: a match
\* can only start at a "|"
RECURSIVE ScanRows(_, _, _, _)
ScanRows(s, lower, from, acc) ==
    IF IndexOf(s, "|", from) = 0 THEN acc
    ELSE LET i == IndexOf(s, "|", from)
             row == MatchRowAt(s, lower, i)
         IN  IF ~row.ok THEN ScanRows(s, lower, i + 1, acc)
             ELSE IF row.type = "diesel"
             THEN ScanRows(s, lower, row.next, [acc EXCEPT !.diesel = RowSlot(row)])
             ELSE ScanRows(s, lower, row.next, [acc EXCEPT !.gas = RowSlot(row)])

\* priceRe anchored at position i: \$(\d+\.\d{2,3})
MatchPriceAt(s, i) ==
    LET d == SkipDigits(s, i + 1)
        f == SkipDigits(s, d + 1)
        e == IF f - (d + 1) > 3 THEN d + 4 ELSE f
    IN  IF HasAt(s, i, "$") /\ d > i + 1 /\ HasAt(s, d, ".") /\ f - (d + 1) >= 2
        THEN [ok |-> TRUE, next |-> e, text |-> SubSeq(s, i + 1, e - 1)]
        ELSE [ok |-> FALSE, next |-> i + 1, text |-> ""]

\* the while loop over priceRe.exec(fullText): the prices in document order;
\* a match can only start at a "$"
RECURSIVE ScanPrices(_, _)
ScanPrices(s, from) ==
    IF IndexOf(s, "$", from) = 0 THEN <<>>
    ELSE LET i == IndexOf(s, "$", from)
             pm == MatchPriceAt(s, i)
         IN  IF pm.ok THEN <<ParseFloat(pm.text)>> \o ScanPrices(s, pm.next)
             ELSE ScanPrices(s, i + 1)

\* a bug: the up family is tested after the down family, so up wins over down
FreeTextDirectionUpLast(textLower) ==
    LET up == \/ HasWord(textLower, "up")
              \/ \E w \in {"increas", "higher", "rise", "raising"} : Contains(textLower, w)
        down == \/ HasWord(textLower, "down")
                \/ \E w \in {"decreas", "lower", "drop", "fall", "reduc"} :
                       Contains(textLower, w)
    IN  IF HasNoChange(textLower) THEN JStr("no-change")
        ELSE IF up THEN JStr("up")
        ELSE IF down THEN JStr("down") ELSE JNull

\* the direction the free-text fallback infers from the lower-cased text
FreeTextDirection(textLower) ==
    LET up == \/ HasWord(textLower, "up")
              \/ \E w \in {"increas", "higher", "rise", "raising"} : Contains(textLower, w)
        down == \/ HasWord(textLower, "down")
                \/ \E w \in {"decreas", "lower", "drop", "fall", "reduc"} :
                       Contains(textLower, w)
        d1 == IF up THEN JStr("up") ELSE JNull
        d2 == IF down THEN JStr("down") ELSE d1
    IN  IF HasNoChange(textLower) THEN JStr("no-change") ELSE d2

\* a bug: the fallback reports a magnitude of 0
FreeTextSlotZero(fullText, textLower) == Slot(FreeTextDirection(textLower), JNum(0), JNull)

\* the slot of the free-text fallback
FreeTextSlot(fullText, textLower) ==
    LET prices == ScanPrices(fullText, 1)
        price == IF Len(prices) >= 2 THEN prices[2]
                 ELSE IF Len(prices) = 1 THEN prices[1] ELSE JNull
    IN  Slot(FreeTextDirection(textLower), JNull, price)

\* s.split('\n')
RECURSIVE SplitLines(_, _)
SplitLines(s, from) ==
    LET nl == IndexOf(s, "\n", from)
    IN  IF nl = 0 THEN <<SubSeq(s, from, Len(s))>>
        ELSE <<SubSeq(s, from, nl - 1)>> \o SplitLines(s, nl + 1)

\* lines.join(' ')
RECURSIVE JoinSpace(_)
JoinSpace(lines) ==
    IF Len(lines) = 0 THEN ""
    ELSE IF Len(lines) = 1 THEN lines[1]
    ELSE lines[1] \o " " \o JoinSpace(Tail(lines))

\* a line the notes keep: neither a table row nor an alignment row
IsNotesLine(l) == ~StartsWith(Trim(l), "|") /\ ~StartsWith(Trim(l), ":-")

ExtractNotes(selftext) ==
    LET notesLines == Trim(JoinSpace(SelectSeq(SplitLines(selftext, 1), IsNotesLine)))
    IN  IF Len(notesLines) > 0 THEN JStr(Slice(notesLines, NOTES_MAX)) ELSE JNull

\* a bug: the fallback also runs when the table left one slot empty
FoundSlotsFillingGaps(table, textLower, slot) ==
    IF Contains(textLower, "diesel")
    THEN IF table.diesel = JNull THEN [table EXCEPT !.diesel = slot] ELSE table
    ELSE IF table.gas = JNull THEN [table EXCEPT !.gas = slot] ELSE table

\* a bug: the fallback fills a slot only when it inferred a direction or a price
FoundSlotsWhenInferred(table, textLower, slot) ==
    IF table.gas.t = "null" /\ table.diesel.t = "null"
          /\ (slot.direction # JNull \/ slot.price # JNull)
    THEN IF Contains(textLower, "diesel")
         THEN [diesel |-> slot, gas |-> JNull]
         ELSE [diesel |-> JNull, gas |-> slot]
    ELSE table

\* lines 253-274: without a table row the free-text slot goes to diesel when
\* the text names diesel, to gas otherwise
FoundSlots(table, textLower, slot) ==
    IF table.gas.t = "null" /\ table.diesel.t = "null"
    THEN IF Contains(textLower, "diesel")
         THEN [diesel |-> slot, gas |-> JNull]
         ELSE [diesel |-> JNull, gas |-> slot]
    ELSE table

\* return { gas, diesel, notes }
ParsedPost(found, notes) == [diesel |-> found.diesel, gas |-> found.gas, notes |-> notes]

\* the body of parseRedditPost for fullText and its lower-cased copy
ParseText(fullText, textLower, selftext) ==
    ParsedPost(FoundSlots(ScanRows(fullText, textLower, 1, [diesel |-> JNull, gas |-> JNull]),
                          textLower, FreeTextSlot(fullText, textLower)),
               ExtractNotes(selftext))

\* post.selftext ?? ''
SelfText(post) == IF IsNullish(post.selftext) THEN "" ELSE post.selftext.s

FullText(title, selftext) == title \o " " \o selftext

parseRedditPost(post) ==
    ParseText(FullText(post.title, SelfText(post)),
              ToLower(FullText(post.title, SelfText(post))), SelfText(post))

(***************************************************************************)
(* The worker's environment (env) and the JSON values it stores.           *)
(***************************************************************************)
WEBHOOK_SECRET == "test-secret"
REDDIT_AUTHOR == "buckit"
LOOKBACK_DAYS == 7

\* if (v) ...
Truthy(v) ==
    CASE v.t \in {"undefined", "null"} -> FALSE
      [] v.t = "string" -> v.s # ""
      [] v.t = "number" -> v.s # "NaN" /\ v.n # 0
      [] v.t = "boolean" -> v.s = "true"
      [] OTHER -> TRUE

\* v.name, for a v that is neither null nor undefined
Prop(v, name) == IF v.t = "object" /\ name \in DOMAIN v THEN v[name] ELSE JUndef

\* the decimal digits of the natural number k
RECURSIVE NatString(_)
NatString(k) ==
    IF k < 10 THEN Ch(Digits, k + 1) ELSE NatString(k \div 10) \o Ch(Digits, (k % 10) + 1)

\* the fraction f (of width digits) without its trailing zeros
RECURSIVE FracString(_, _)
FracString(f, width) ==
    IF f = 0 THEN ""
    ELSE Ch(Digits, (f \div Pow10(width - 1)) + 1)
             \o FracString(f % Pow10(width - 1), width - 1)

\* String(x) of a number
NumberString(v) ==
    LET a == IF v.n < 0 THEN -v.n ELSE v.n
        digits == NatString(a \div Scale)
                      \o (IF a % Scale = 0 THEN "" ELSE "." \o FracString(a % Scale, FracDigits))
    IN  IF v.s = "NaN" THEN "NaN" ELSE IF v.n < 0 THEN "-" \o digits ELSE digits

\* String(v): an array here is the empty array, an object a plain object
StringOf(v) ==
    CASE v.t = "string" -> v.s
      [] v.t = "boolean" -> v.s
      [] v.t = "number" -> NumberString(v)
      [] v.t = "array" -> ""
      [] OTHER -> "[object Object]"

\* what JSON.parse(JSON.stringify(v)) gives back for a value inside an object:
\* NaN is written as null
JsonValue(v) == IF v.t = "number" /\ v.s = "NaN" THEN JNull ELSE v

JsonSlot(slot) ==
    IF slot.t = "object"
    THEN Slot(JsonValue(slot.direction), JsonValue(slot.adjustment), JsonValue(slot.price))
    ELSE slot

\* JSON.parse(JSON.stringify(prediction)): the record a later get() reads
Stringify(prediction) ==
    [f \in DOMAIN prediction |->
        IF f \in {"gas", "diesel"} THEN JsonSlot(prediction[f]) ELSE prediction[f]]

(***************************************************************************)
(* writePrediction (src/src/index.js:397-407) and the same lines inlined   *)
(* in post_prediction (src/mcp/server.js:104-110).                         *)
(***************************************************************************)
\* raw ? JSON.parse(raw) : []
ReadHistory(store) ==
    IF store.prediction_history.t = "null" THEN <<>> ELSE store.prediction_history.items

\* a bug: the splice is left out
UnshiftUncapped(history, prediction, maxHistory) == <<prediction>> \o history

\* history.unshift(prediction); if (history.length > maxHistory) history.splice(maxHistory)
UnshiftCapped(history, prediction, maxHistory) ==
    LET longer == <<prediction>> \o history
    IN  IF Len(longer) > maxHistory THEN SubSeq(longer, 1, maxHistory) ELSE longer

writePrediction(prediction, store) ==
    LET stored == Stringify(prediction)
    IN  [store EXCEPT !.latest_prediction = stored,
                      !.prediction_history =
                          JArray(UnshiftCapped(ReadHistory(store), stored, MAX_HISTORY))]

(***************************************************************************)
(* handleWebhook (src/src/index.js:1130-1233).                             *)
(***************************************************************************)
VALID_DIRECTIONS == {"up", "down", "no-change"}

\* VALID_DIRECTIONS.includes(v)
IsValidDirection(v) == v.t = "string" /\ v.s \in VALID_DIRECTIONS

\* a bug: ?secret= is refused only when it stands in for the header
SecretParamWithoutHeader(req) == req.secret_param /\ IsNullish(req.authorization)

\* url.searchParams.has('secret')
HasSecretParam(req) == req.secret_param

\* the bearer token of the Authorization header, '' without one
BearerToken(req) ==
    LET authHeader == IF IsNullish(req.authorization) THEN "" ELSE req.authorization.s
    IN  IF StartsWith(authHeader, "Bearer ")
        THEN SubSeq(authHeader, 8, Len(authHeader))
        ELSE ""

\* a bug: any bearer token is taken, not only env.WEBHOOK_SECRET
WebhookAuthorizedAnyToken(req) == BearerToken(req) # ""

\* !(!token || token !== env.WEBHOOK_SECRET)
WebhookAuthorized(req) == BearerToken(req) # "" /\ BearerToken(req) = WEBHOOK_SECRET

\* validateFuelSlot(slot, name): the error message, "" for none
validateFuelSlot(slot, name) ==
    IF ~Truthy(slot) THEN ""
    ELSE IF ~IsValidDirection(Prop(slot, "direction"))
    THEN name \o ".direction must be one of: up, down, no-change"
    ELSE IF /\ Prop(slot, "price").t # "undefined"
            /\ Prop(slot, "price").t # "null"
            /\ NotANumber(Prop(slot, "price"))
    THEN name \o ".price must be a number if provided"
    ELSE ""

\* body.gas ? { direction, adjustment ?? null, price ?? null } : null
NewFormatSlot(slot) ==
    IF Truthy(slot)
    THEN Slot(Prop(slot, "direction"),
              Coalesce(Prop(slot, "adjustment"), JNull),
              Coalesce(Prop(slot, "price"), JNull))
    ELSE JNull

\* notes ? String(notes).slice(0, 500) : null
NormalizeNotes(notes) ==
    IF Truthy(notes) THEN JStr(Slice(StringOf(notes), NOTES_MAX)) ELSE JNull

Reject(status, message) ==
    [prediction |-> JNull, status |-> status, error |-> message, threw |-> FALSE]
Accept(prediction) ==
    [prediction |-> prediction, status |-> 200, error |-> "", threw |-> FALSE]
\* an exception the handler does not catch
Throw(message) ==
    [prediction |-> JNull, status |-> 500, error |-> message, threw |-> TRUE]

WebhookPrediction(gas, diesel, notes, now) ==
    [diesel |-> diesel,
     gas |-> gas,
     notes |-> NormalizeNotes(notes),
     source |-> "webhook",
     updated_at |-> now,
     post_id |-> JNull]

\* a bug: the diesel slot is validated before the gas slot
NewFormatOutcomeDieselFirst(body, notes, now) ==
    LET gasErr == validateFuelSlot(Prop(body, "gas"), "gas")
        dieselErr == validateFuelSlot(Prop(body, "diesel"), "diesel")
    IN  IF dieselErr # "" THEN Reject(400, dieselErr)
        ELSE IF gasErr # "" THEN Reject(400, gasErr)
        ELSE Accept(WebhookPrediction(NewFormatSlot(Prop(body, "gas")),
                                      NewFormatSlot(Prop(body, "diesel")), notes, now))

\* the new format branch: body.gas !== undefined || body.diesel !== undefined
NewFormatOutcome(body, notes, now) ==
    LET gasErr == validateFuelSlot(Prop(body, "gas"), "gas")
        dieselErr == validateFuelSlot(Prop(body, "diesel"), "diesel")
    IN  IF gasErr # "" THEN Reject(400, gasErr)
        ELSE IF dieselErr # "" THEN Reject(400, dieselErr)
        ELSE Accept(WebhookPrediction(NewFormatSlot(Prop(body, "gas")),
                                      NewFormatSlot(Prop(body, "diesel")), notes, now))

\* a bug: the legacy branch fills the gas slot whatever fuel_type says
LegacyOutcomeGasOnly(body, notes, now) ==
    IF /\ IsValidDirection(Prop(body, "direction"))
       /\ Prop(body, "fuel_type") \in {JUndef, JStr("gas"), JStr("diesel")}
       /\ ~NotANumber(Prop(body, "predicted_price"))
    THEN Accept(WebhookPrediction(Slot(Prop(body, "direction"), JNull,
                                       Prop(body, "predicted_price")),
                                  JNull, notes, now))
    ELSE Reject(400, "Invalid")

\* the legacy format branch; the first two messages are given up to their dash
LegacyOutcome(body, notes, now) ==
    LET direction == Prop(body, "direction")
        predicted_price == Prop(body, "predicted_price")
        current_price == Prop(body, "current_price")
        fuel_type == IF Prop(body, "fuel_type").t = "undefined"
                     THEN JStr("gas") ELSE Prop(body, "fuel_type")
        slot == Slot(direction, JNull, predicted_price)
    IN  IF ~IsValidDirection(direction)
        THEN Reject(400, "Invalid direction")
        ELSE IF ~(fuel_type.t = "string" /\ fuel_type.s \in {"gas", "diesel"})
        THEN Reject(400, "Invalid fuel_type")
        ELSE IF NotANumber(predicted_price)
        THEN Reject(400, "predicted_price must be a number")
        ELSE IF current_price.t # "undefined" /\ NotANumber(current_price)
        THEN Reject(400, "current_price must be a number if provided")
        ELSE IF fuel_type.s = "diesel"
        THEN Accept(WebhookPrediction(JNull, slot, notes, now))
        ELSE Accept(WebhookPrediction(slot, JNull, notes, now))

\* everything after the body was parsed (lines 1163-1226)
BodyOutcome(body, now) ==
    IF IsNullish(body)
    THEN Throw("TypeError: Cannot destructure property 'notes'")
    ELSE LET notes == IF Prop(body, "notes").t = "undefined"
                      THEN JNull ELSE Prop(body, "notes")
         IN  IF Prop(body, "gas").t # "undefined" \/ Prop(body, "diesel").t # "undefined"
             THEN NewFormatOutcome(body, notes, now)
             ELSE LegacyOutcome(body, notes, now)

\* the response of handleWebhook and the prediction it hands to writePrediction
handleWebhook(req, now) ==
    IF HasSecretParam(req)
    THEN Reject(400, "Use Authorization: Bearer header, not ?secret= query param")
    ELSE IF ~WebhookAuthorized(req) THEN Reject(401, "Unauthorized")
    ELSE IF req.body.t = "invalid" THEN Reject(400, "Invalid JSON")
    ELSE BodyOutcome(req.body, now)

(***************************************************************************)
(* BuckitMCP.post_prediction (src/mcp/server.js:76-113).                   *)
(***************************************************************************)
\* a bug: any non-empty secret is taken, not only env.WEBHOOK_SECRET
McpAuthorizedAnySecret(args) == Truthy(args.secret)

\* !(!secret || secret !== this.env.WEBHOOK_SECRET)
McpAuthorized(args) ==
    Truthy(args.secret) /\ args.secret.t = "string" /\ args.secret.s = WEBHOOK_SECRET

McpDirectionOk(direction) == direction.t = "string" /\ direction.s \in {"up", "down"}

post_prediction(args, now) ==
    LET fuel_type == IF args.fuel_type.t = "undefined" THEN JStr("gas") ELSE args.fuel_type
        notes == IF args.notes.t = "undefined" THEN JNull ELSE args.notes
    IN  IF ~McpAuthorized(args) THEN Reject(401, "Unauthorized")
        ELSE IF ~McpDirectionOk(args.direction) THEN Reject(400, "Invalid direction")
        ELSE IF ~(fuel_type.t = "string" /\ fuel_type.s \in {"gas", "diesel"})
        THEN Reject(400, "Invalid fuel_type")
        ELSE IF NotANumber(args.predicted_price)
        THEN Reject(400, "predicted_price must be a number")
        ELSE Accept([direction |-> args.direction,
                     notes |-> NormalizeNotes(notes),
                     source |-> "mcp",
                     updated_at |-> now,
                     post_id |-> JNull,
                     currentPrice |-> Coalesce(args.current_price, JNull),
                     predictedPrice |-> args.predicted_price,
                     fuelType |-> fuel_type])

\* the inlined copy of writePrediction's body (lines 104-110)
McpWrite(prediction, store) ==
    LET stored == Stringify(prediction)
    IN  [store EXCEPT !.latest_prediction = stored,
                      !.prediction_history =
                          JArray(UnshiftCapped(ReadHistory(store), stored, MAX_HISTORY))]


(***************************************************************************)
(* BuckitMCP.trigger_reddit_scan (src/mcp/server.js:121-133).              *)
(***************************************************************************)
trigger_reddit_scan(args) ==
    IF ~McpAuthorized(args) THEN Reject(401, "Unauthorized") ELSE Accept(JNull)

(***************************************************************************)
(* The inputs the environment can send.                                    *)
(***************************************************************************)
Dec(units, thousandths) == JNum(units * Scale + thousandths * (Scale \div 1000))

Obj(fields) ==
    [f \in DOMAIN fields \cup {"t"} |-> IF f = "t" THEN "object" ELSE fields[f]]

InvalidJson == [t |-> "invalid"]
EmptyArray == [t |-> "array"]

GasUp == Obj([direction |-> JStr("up"), adjustment |-> Dec(3, 600), price |-> Dec(1, 621)])
DieselDown ==
    Obj([direction |-> JStr("down"), adjustment |-> Dec(0, 700), price |-> Dec(1, 544)])
GasNegative ==
    Obj([direction |-> JStr("up"), adjustment |-> JNum(0 - Dec(3, 600).n),
         price |-> Dec(1, 621)])

LegacyValid ==
    Obj([direction |-> JStr("up"),
         notes |-> JStr("Fill up."),
         predicted_price |-> Dec(1, 719),
         current_price |-> Dec(1, 659),
         fuel_type |-> JStr("gas")])

\* bodies handleWebhook accepts
AcceptedBodies ==
    { Obj([diesel |-> DieselDown, gas |-> GasUp, notes |-> JStr("Fill up.")]),
      Obj([gas |-> GasNegative]),
      Obj([gas |-> GasUp, notes |-> EmptyArray]),
      LegacyValid }

\* bodies it does not
RejectedBodies ==
    { InvalidJson, JNull, Dec(5, 0), JStr("up"), EmptyArray, Obj(<<>>),
      Obj([gas |-> Obj([direction |-> JStr("sideways"), price |-> Dec(1, 500)])]),
      Obj([gas |-> Obj([direction |-> JStr("up"), price |-> JStr("lots")])]),
      Obj([gas |-> JStr("up")]),
      Obj([diesel |-> Obj([direction |-> JStr("bad"), price |-> Dec(1, 500)])]),
      [LegacyValid EXCEPT !.direction = JStr("sideways")],
      [LegacyValid EXCEPT !.fuel_type = JStr("jet")],
      [LegacyValid EXCEPT !.predicted_price = JStr("lots")],
      [LegacyValid EXCEPT !.current_price = JStr("some")],
      \* bodies that break several rules at once
      Obj([gas |-> Obj([direction |-> JStr("sideways"), price |-> JStr("lots")])]),
      Obj([diesel |-> Obj([direction |-> JStr("bad"), price |-> JStr("x")]),
           gas |-> Obj([direction |-> JStr("up"), price |-> JStr("lots")])]),
      Obj([diesel |-> Obj([direction |-> JStr("bad"), price |-> Dec(1, 500)]),
           gas |-> Obj([direction |-> JStr("sideways"), price |-> Dec(1, 500)])]),
      [LegacyValid EXCEPT !.direction = JStr("sideways"), !.fuel_type = JStr("jet"),
                          !.predicted_price = JStr("lots")],
      [LegacyValid EXCEPT !.fuel_type = JStr("jet"), !.predicted_price = JStr("lots"),
                          !.current_price = JStr("some")],
      [LegacyValid EXCEPT !.predicted_price = JStr("lots"),
                          !.current_price = JStr("some")] }

GoodAuth == JStr("Bearer " \o WEBHOOK_SECRET)
BadAuths == {JNull, JStr("Bearer wrong"), JStr(WEBHOOK_SECRET), JStr("Bearer ")}

Request(secret_param, authorization, body) ==
    [secret_param |-> secret_param, authorization |-> authorization, body |-> body]

\* a well-authenticated request for every body; every other combination of
\* ?secret= and Authorization with a body of each kind
ProbeBodies ==
    { InvalidJson,
      Obj([diesel |-> DieselDown, gas |-> GasUp, notes |-> JStr("Fill up.")]),
      Obj([gas |-> Obj([direction |-> JStr("sideways"), price |-> Dec(1, 500)])]) }

WebhookRequests ==
    {Request(FALSE, GoodAuth, b) : b \in AcceptedBodies \cup RejectedBodies}
        \cup {Request(TRUE, GoodAuth, b) : b \in ProbeBodies}
        \cup {Request(sp, a, b) : sp \in BOOLEAN, a \in BadAuths, b \in ProbeBodies}

\* the requests that take part in the interplay of the three writers: the
\* two shapes accepted, a body refused, a body that is no JSON, a call
\* without a token
PipelineRequests ==
    {Request(FALSE, GoodAuth, b) : b \in ProbeBodies \cup {LegacyValid}}
        \cup {Request(FALSE, JNull, LegacyValid)}

McpArgs(direction, predicted_price, fuel_type, secret) ==
    [direction |-> direction,
     notes |-> JStr("Test note"),
     predicted_price |-> predicted_price,
     current_price |-> JUndef,
     fuel_type |-> fuel_type,
     secret |-> secret]

PostPredictionArgs ==
    { McpArgs(JStr("up"), Dec(1, 720), JStr("gas"), JStr(WEBHOOK_SECRET)),
      McpArgs(JStr("no-change"), Dec(1, 720), JStr("gas"), JStr(WEBHOOK_SECRET)),
      McpArgs(JStr("up"), Dec(1, 720), JStr("jet"), JStr(WEBHOOK_SECRET)),
      McpArgs(JStr("up"), JStr("alot"), JUndef, JStr(WEBHOOK_SECRET)),
      McpArgs(JStr("up"), Dec(1, 720), JStr("gas"), JStr("bad-secret")),
      McpArgs(JStr("sideways"), Dec(1, 720), JStr("gas"), JStr("")) }

TriggerArgs == {[secret |-> JStr(WEBHOOK_SECRET)], [secret |-> JStr("wrong")],
                [secret |-> JUndef]}

RedditPost(id, author, title, selftext, age_days) ==
    [selftext |-> JStr(selftext),
     title |-> title,
     id |-> id,
     author |-> author,
     age_days |-> age_days,
     permalink |-> "/r/halifax/comments/" \o id \o "/"]

TableHeader == "|Type|Adjustment|New Min Price|\n:--|:--|:--|\n"

\* gas up, diesel down
PostTable ==
    RedditPost("t1", "buckit", "Gas prices this week",
               TableHeader \o "|Regular| UP 3.6 |162.1|\n|Diesel| DOWN 0.7 |154.4|\nFill up.", 0)
\* gas unchanged, diesel up
PostMixed ==
    RedditPost("t2", "Buckit", "Interrupter clause",
               "|Regular| NO CHANGE |127.5|\n|Diesel| UP 0.7 |154.4|", 3)
\* free text, no change
PostNoChange == RedditPost("t3", "buckit", "Gas prices no change this week", "", 1)
\* an interrupter post with a diesel row only
PostDiesel ==
    RedditPost("t7", "buckit", "Diesel interrupter", "|Diesel| DOWN 2.0 |150.0|", 2)
\* posts fetchBuckitPost passes over
PostStale == RedditPost("t4", "buckit", "Gas prices going up", "", 8)
PostOther == RedditPost("t5", "someoneelse", "Gas prices going down", "", 0)
PostOffTopic == RedditPost("t6", "buckit", "Pothole on Quinpool", "", 0)

Listings ==
    { <<>>, <<PostTable>>, <<PostMixed>>, <<PostNoChange>>, <<PostDiesel>>,
      <<PostOther, PostOffTopic, PostTable>>, <<PostStale>> }

ListedPosts == UNION {{l[i] : i \in 1..Len(l)} : l \in Listings}

\* what fetch(new.json) did: threw, answered non-OK, or answered with a listing
Fetches ==
    {[ok |-> FALSE, kind |-> "throw", children |-> <<>>],
     [ok |-> FALSE, kind |-> "response", children |-> <<>>]}
        \cup {[ok |-> TRUE, kind |-> "response", children |-> l] : l \in Listings}

\* what env.AI.run did
AIOutcomes == {"image", "no_image", "throws"}

(***************************************************************************)
(* fetchBuckitPost (src/src/index.js:295-324).                             *)
(***************************************************************************)
\* /gas|gasoline|diesel|fuel|price|interrupter/i.test(title)
HasFuelKeyword(title) ==
    \E w \in {"gas", "gasoline", "diesel", "fuel", "price", "interrupter"} :
        Contains(ToLower(title), w)

\* the predicate of posts.find(...)
IsBuckitFuelPost(p) ==
    /\ ToLower(p.author) = ToLower(REDDIT_AUTHOR)
    /\ HasFuelKeyword(p.title)
    /\ p.age_days < LOOKBACK_DAYS

\* posts.find(...) ?? null
RECURSIVE FindPost(_)
FindPost(children) ==
    IF Len(children) = 0 THEN JNull
    ELSE IF IsBuckitFuelPost(Head(children)) THEN Head(children)
    ELSE FindPost(Tail(children))

\* the post fetchBuckitPost resolves to, for a fetch that did not throw
fetchBuckitPost(fetch) == IF ~fetch.ok THEN JNull ELSE FindPost(fetch.children)

(***************************************************************************)
(* fetchCommunityContext (src/src/index.js:334-347).  A promise is a       *)
(* record of its status and its value; Pending is a promise not yet        *)
(* settled.                                                                *)
(***************************************************************************)
Subreddits == <<"halifax", "novascotia">>

Pending == [status |-> "pending", value |-> <<>>]
Fulfilled(value) == [status |-> "fulfilled", value |-> value]
Rejected == [status |-> "rejected", value |-> <<>>]

\* fetch(top.json): rejects on a network error, resolves to a response otherwise
FetchPromise(f) == IF f.kind = "throw" THEN Rejected ELSE Fulfilled(f)

\* .then((r) => (r.ok ? r.json() : null)): r.json() rejects on a body that
\* is not JSON
ThenJson(promise) ==
    IF promise.status = "rejected" THEN Rejected
    ELSE IF ~promise.value.ok THEN Fulfilled(JNull)
    ELSE IF promise.value.kind = "not_json" THEN Rejected
    ELSE Fulfilled(promise.value)

\* children.map((c) => c.data.title): a TypeError for a child without data
HasData(c) == c # JNull

\* .filter(Boolean)
RECURSIVE FilterTruthy(_)
FilterTruthy(titles) ==
    IF Len(titles) = 0 THEN <<>>
    ELSE IF Truthy(Head(titles)) THEN <<Head(titles).s>> \o FilterTruthy(Tail(titles))
    ELSE FilterTruthy(Tail(titles))

\* .then((data) => data?.data?.children?.map(...).filter(Boolean) ?? [])
ThenTitles(promise) ==
    IF promise.status = "rejected" THEN Rejected
    ELSE IF promise.value = JNull \/ promise.value.kind = "no_children" THEN Fulfilled(<<>>)
    ELSE IF promise.value.kind = "not_array" THEN Rejected
    ELSE IF \E i \in 1..Len(promise.value.children) : ~HasData(promise.value.children[i])
    THEN Rejected
    ELSE Fulfilled(FilterTruthy(promise.value.children))

\* .catch(() => [])
CatchEmpty(promise) == IF promise.status = "rejected" THEN Fulfilled(<<>>) ELSE promise

\* the promise subreddits.map(...) builds for one subreddit, once settled
SubredditTitles(f) == CatchEmpty(ThenTitles(ThenJson(FetchPromise(f))))

\* (r) => (r.status === 'fulfilled' ? r.value : [])
SettledValue(r) == IF r.status = "fulfilled" THEN r.value ELSE <<>>

\* a bug: the titles are joined in the order in which the fetches completed
FlatMapInCompletionOrder(results, order) ==
    SettledValue(results[order[1]]) \o SettledValue(results[order[2]])

\* results.flatMap(...): Promise.allSettled keeps the order of subreddits
FlatMapSettled(results, order) == SettledValue(results[1]) \o SettledValue(results[2])

(***************************************************************************)
(* generateAndStoreImage (src/src/index.js:360-388): the R2 key, or null   *)
(* when the AI call throws or returns no image.                            *)
(***************************************************************************)
ImageKeyFor(postId) == "images/" \o postId \o ".png"

generateAndStoreImage(postId, ai) == IF ai = "image" THEN JStr(ImageKeyFor(postId)) ELSE JNull

(***************************************************************************)
(* scheduled (src/src/index.js:1295-1354).                                 *)
(***************************************************************************)
\* parsed.gas?.direction ?? parsed.diesel?.direction
ImageDirection(parsed) ==
    LET gasDirection == IF IsNullish(parsed.gas) THEN JUndef ELSE parsed.gas.direction
        dieselDirection == IF IsNullish(parsed.diesel) THEN JUndef ELSE parsed.diesel.direction
    IN  Coalesce(gasDirection, dieselDirection)

\* a bug: every direction parsed is acted on
ActionableAnyDirection(imageDirection) == Coalesce(imageDirection, JNull)

\* imageDirection === 'up' || imageDirection === 'down' ? imageDirection : null
ActionableDirection(imageDirection) ==
    IF imageDirection.t = "string" /\ imageDirection.s \in {"up", "down"}
    THEN imageDirection ELSE JNull

\* a bug: the post id is compared with the wrong key
DedupOnImageKey(store, post) == store.latest_image_key = JStr(post.id)

\* a bug: the post id is compared with the post of the prediction on display
AlreadyProcessedLatest(store, post) ==
    /\ store.latest_prediction # JNull
    /\ store.latest_prediction.post_id = JStr(post.id)

\* lastId === post.id
AlreadyProcessed(store, post) == store.last_processed_post_id = JStr(post.id)

RedditPrediction(post, parsed, now) ==
    [diesel |-> parsed.diesel,
     gas |-> parsed.gas,
     notes |-> parsed.notes,
     source |-> "reddit",
     updated_at |-> now,
     post_id |-> JStr(post.id),
     post_url |-> "https://www.reddit.com" \o post.permalink,
     reddit_title |-> post.title]

\* prediction.image_key = imageKey
WithImageKey(prediction, imageKey) ==
    [f \in DOMAIN prediction \cup {"image_key"} |->
        IF f = "image_key" THEN imageKey ELSE prediction[f]]

\* What a run of scheduled() did, and the store it leaves:
\*   outcome    fetch_error | no_post | skipped | processed
\*   ai_called  whether env.AI.run was invoked
\* a run that returns early
IdleRun(store, outcome, post_id) ==
    [parsed |-> JNull,
     store |-> store,
     post_id |-> post_id,
     outcome |-> outcome,
     image_direction |-> JNull,
     ai_called |-> FALSE,
     image_key |-> JNull,
     wrote |-> FALSE]

\* lines 1340-1349: the image key (null for none) is put and attached, the
\* prediction written, the post id recorded
StorePost(store, post, prediction, imageKey) ==
    LET withImage == IF Truthy(imageKey)
                     THEN [store EXCEPT !.latest_image_key = imageKey] ELSE store
        attached == IF Truthy(imageKey) THEN WithImageKey(prediction, imageKey)
                    ELSE prediction
    IN  [writePrediction(attached, withImage) EXCEPT !.last_processed_post_id = JStr(post.id)]

\* lines 1324-1349, for the post parsed
ProcessPost(store, post, parsed, actionableDirection, ai, now) ==
    LET imageKey == IF Truthy(actionableDirection)
                    THEN generateAndStoreImage(post.id, ai) ELSE JNull
    IN  [parsed |-> parsed,
         store |-> StorePost(store, post, RedditPrediction(post, parsed, now), imageKey),
         post_id |-> JStr(post.id),
         outcome |-> "processed",
         image_direction |-> Coalesce(ImageDirection(parsed), JNull),
         ai_called |-> Truthy(actionableDirection),
         image_key |-> imageKey,
         wrote |-> TRUE]

\* parseRedditPost(post) of every post a listing can hold, evaluated once
ParsedPosts == [p \in ListedPosts |-> parseRedditPost(p)]

\* lines 1324-1349, for what parseRedditPost returned
ProcessParsed(store, post, parsed, ai, now) ==
    ProcessPost(store, post, parsed, ActionableDirection(ImageDirection(parsed)), ai, now)

\* lines 1310-1348, for the post fetched
ProcessFetched(store, post, ai, now) ==
    IF post = JNull THEN IdleRun(store, "no_post", JNull)
    ELSE IF AlreadyProcessed(store, post) THEN IdleRun(store, "skipped", JStr(post.id))
    ELSE ProcessParsed(store, post, ParsedPosts[post], ai, now)

\* fetchBuckitPost(fetch) of every fetch, evaluated once
FetchedPosts == [f \in Fetches |-> fetchBuckitPost(f)]

\* a bug: a fetch that rejects makes the run forget the post it had processed
scheduledForgetful(store, fetch, ai, now) ==
    IF fetch.kind = "throw"
    THEN IdleRun([store EXCEPT !.last_processed_post_id = JNull], "fetch_error", JNull)
    ELSE ProcessFetched(store, FetchedPosts[fetch], ai, now)

scheduled(store, fetch, ai, now) ==
    IF fetch.kind = "throw" THEN IdleRun(store, "fetch_error", JNull)
    ELSE ProcessFetched(store, FetchedPosts[fetch], ai, now)

(***************************************************************************)
(* State machine.                                                          *)
(***************************************************************************)
EmptyStore ==
    [prediction_history |-> JNull,
     latest_prediction |-> JNull,
     latest_image_key |-> JNull,
     last_processed_post_id |-> JNull]

NoResponse == [prediction |-> JNull, status |-> 0, error |-> "", threw |-> FALSE]
NoRun == [outcome |-> "none"]

Init ==
    /\ kv = EmptyStore
    /\ clock = 0
    /\ aiRuns = 0
    /\ images = {}
    /\ last = [op |-> "init", input |-> JNull, response |-> NoResponse, run |-> NoRun]
    /\ pin = JNull
    /\ pout = JNull

\* POST /webhook
Webhook(req) ==
    \E response \in {handleWebhook(req, clock)} :
        /\ clock < MaxClock
        /\ last' = [op |-> "webhook", input |-> req, response |-> response, run |-> NoRun]
        /\ IF response.status = 200
           THEN /\ kv' = writePrediction(response.prediction, kv)
                /\ clock' = clock + 1
           ELSE UNCHANGED <<kv, clock>>
        /\ UNCHANGED <<aiRuns, images, pin, pout>>

\* MCP tool post_prediction
PostPrediction(args) ==
    \E response \in {post_prediction(args, clock)} :
        /\ clock < MaxClock
        /\ last' = [op |-> "post_prediction", input |-> args, response |-> response,
                    run |-> NoRun]
        /\ IF response.status = 200
           THEN /\ kv' = McpWrite(response.prediction, kv)
                /\ clock' = clock + 1
           ELSE UNCHANGED <<kv, clock>>
        /\ UNCHANGED <<aiRuns, images, pin, pout>>

\* how the fetch of new.json ended: rejected, answered non-OK, or answered OK
FetchStatus(fetch) ==
    IF fetch.kind = "throw" THEN "network_error" ELSE IF fetch.ok THEN "ok" ELSE "not_ok"

\* the effect of one run of scheduled() on the state
RunScheduled(op, input, response, fetch, ai) ==
    \E run \in {scheduled(kv, fetch, ai, clock)} :
        /\ kv' = run.store
        /\ clock' = IF run.wrote THEN clock + 1 ELSE clock
        /\ aiRuns' = IF run.ai_called THEN aiRuns + 1 ELSE aiRuns
        /\ images' = IF Truthy(run.image_key) THEN images \cup {run.image_key.s} ELSE images
        /\ last' = [op |-> op, input |-> input, response |-> response,
                    run |-> [f \in (DOMAIN run \ {"store"}) \cup {"fetch"} |->
                                IF f = "fetch" THEN FetchStatus(fetch) ELSE run[f]]]

\* the cron trigger
Scheduled(fetch, ai) ==
    /\ clock < MaxClock
    /\ RunScheduled("scheduled", JNull, NoResponse, fetch, ai)
    /\ UNCHANGED <<pin, pout>>

\* MCP tool trigger_reddit_scan: only an authorized call reaches scheduled()
TriggerRedditScan(args) ==
    \E response \in {trigger_reddit_scan(args)} :
        /\ clock < MaxClock
        /\ IF response.status = 200
           THEN \E fetch \in Fetches, ai \in AIOutcomes :
                    RunScheduled("trigger_reddit_scan", args, response, fetch, ai)
           ELSE /\ last' = [op |-> "trigger_reddit_scan", input |-> args,
                            response |-> response, run |-> NoRun]
                /\ UNCHANGED <<kv, clock, aiRuns, images>>
        /\ UNCHANGED <<pin, pout>>

Next ==
    \/ \E req \in PipelineRequests : Webhook(req)
    \/ \E args \in PostPredictionArgs : PostPrediction(args)
    \/ \E fetch \in Fetches, ai \in AIOutcomes : Scheduled(fetch, ai)
    \/ \E args \in TriggerArgs : TriggerRedditScan(args)

Spec == Init /\ [][Next]_vars

(***************************************************************************)
(* POST /webhook on its own: every request of WebhookRequests, in any      *)
(* order, on a store only the webhook writes.                              *)
(***************************************************************************)
WebhookNext == \E req \in WebhookRequests : Webhook(req)

SpecWebhook == Init /\ [][WebhookNext]_vars

(***************************************************************************)
(* The parser on its own: parseRedditPost applied to one post, for every   *)
(* post made of a title and up to MaxLines lines of selftext.              *)
(***************************************************************************)
ParseTitles ==
    {"Gas prices this week", "Weekly thread", "Diesel to drop, regular up",
     "Biodiesel blend update"}

ParseLines ==
    { "|Regular| UP 3.6 |162.1|",
      "|Diesel| DOWN 0.7 |154.4|",
      "|Gas| NO CHANGE |127.5|",
      "|Diesel| UP . |10|",
      "|Gasoline| down 2.0 |160|",
      "No change expected, $1.544",
      "Prices fall Friday.",
      "Fill up tonight." }

\* lines.join('\n')
RECURSIVE JoinLines(_)
JoinLines(lines) ==
    IF Len(lines) = 0 THEN ""
    ELSE IF Len(lines) = 1 THEN lines[1]
    ELSE lines[1] \o "\n" \o JoinLines(Tail(lines))

ParseBodies == UNION {[1..k -> ParseLines] : k \in 0..MaxLines}

ParsePosts ==
    {RedditPost("p1", REDDIT_AUTHOR, title, JoinLines(lines), 0) :
        title \in ParseTitles, lines \in ParseBodies}

ParseInit ==
    /\ kv = EmptyStore
    /\ clock = 0
    /\ aiRuns = 0
    /\ images = {}
    /\ last = [op |-> "init", input |-> JNull, response |-> NoResponse, run |-> NoRun]
    /\ pin \in ParsePosts
    /\ pout = JNull

Parse ==
    /\ pout = JNull
    /\ pout' = parseRedditPost(pin)
    /\ UNCHANGED <<kv, clock, aiRuns, images, last, pin>>

ParseNext == Parse

SpecParse == ParseInit /\ [][ParseNext]_vars

(***************************************************************************)
(* The two wire shapes of POST /webhook side by side: one submission       *)
(* (direction, fuel, price), sent in the legacy shape or in the dual-fuel  *)
(* shape, any number of times.  pin holds the submission.                  *)
(***************************************************************************)
WirePrices ==
    {Dec(1, 719), Dec(1, 0), Dec(0, 0), Dec(0, 5), Dec(162, 100), JNum(0 - Dec(1, 544).n)}

WireSubmissions ==
    {[direction |-> JStr(d), price |-> p, fuel_type |-> JStr(f)] :
        d \in VALID_DIRECTIONS, p \in WirePrices, f \in {"gas", "diesel"}}

\* { direction: d, predicted_price: p, fuel_type: f }
LegacyBody(sub) ==
    Obj([direction |-> sub.direction, predicted_price |-> sub.price,
         fuel_type |-> sub.fuel_type])

\* { f: { direction: d, price: p } }
DualFuelBody(sub) ==
    IF sub.fuel_type = JStr("diesel")
    THEN Obj([diesel |-> Obj([direction |-> sub.direction, price |-> sub.price])])
    ELSE Obj([gas |-> Obj([direction |-> sub.direction, price |-> sub.price])])

WireInit ==
    /\ kv = EmptyStore
    /\ clock = 0
    /\ aiRuns = 0
    /\ images = {}
    /\ last = [op |-> "init", input |-> JNull, response |-> NoResponse, run |-> NoRun]
    /\ pin \in WireSubmissions
    /\ pout = JNull

SubmitLegacy == Webhook(Request(FALSE, GoodAuth, LegacyBody(pin)))

SubmitDualFuel == Webhook(Request(FALSE, GoodAuth, DualFuelBody(pin)))

WireNext == SubmitLegacy \/ SubmitDualFuel

SpecWire == WireInit /\ [][WireNext]_vars

(***************************************************************************)
(* fetchCommunityContext on its own: the two fetches settle in either      *)
(* order, then the results are joined.  pin holds what each subreddit's    *)
(* fetch does, pout the promises, the order of completion and the result.  *)
(***************************************************************************)
\* a child of a listing: its title ('' for an empty one), JNull for a child
\* without data
HalifaxChildren == <<JStr("Storm closes bridge"), JStr(""), JStr("Ferry delays")>>
NovaScotiaChildren == <<JStr("Lobster season")>>
BrokenChildren == <<JStr("Power outage"), JNull>>

SubredditFetches ==
    {[ok |-> FALSE, kind |-> "throw", children |-> <<>>],
     [ok |-> FALSE, kind |-> "response", children |-> <<>>],
     [ok |-> TRUE, kind |-> "not_json", children |-> <<>>],
     [ok |-> TRUE, kind |-> "no_children", children |-> <<>>],
     [ok |-> TRUE, kind |-> "not_array", children |-> <<>>],
     [ok |-> TRUE, kind |-> "response", children |-> BrokenChildren],
     [ok |-> TRUE, kind |-> "response", children |-> <<>>],
     [ok |-> TRUE, kind |-> "response", children |-> HalifaxChildren],
     [ok |-> TRUE, kind |-> "response", children |-> NovaScotiaChildren]}

ContextInit ==
    /\ kv = EmptyStore
    /\ clock = 0
    /\ aiRuns = 0
    /\ images = {}
    /\ last = [op |-> "init", input |-> JNull, response |-> NoResponse, run |-> NoRun]
    /\ pin \in [1..Len(Subreddits) -> SubredditFetches]
    /\ pout = [results |-> [i \in 1..Len(Subreddits) |-> Pending], order |-> <<>>,
               returned |-> Pending]

\* the promise of subreddit i settles
Settle(i) ==
    /\ pout.results[i] = Pending
    /\ pout' = [pout EXCEPT !.results[i] = SubredditTitles(pin[i]),
                            !.order = Append(@, i)]
    /\ UNCHANGED <<kv, clock, aiRuns, images, last, pin>>

\* Promise.allSettled resolves and fetchCommunityContext returns
ReturnContext ==
    /\ pout.returned = Pending
    /\ \A i \in 1..Len(Subreddits) : pout.results[i] # Pending
    /\ pout' = [pout EXCEPT !.returned = Fulfilled(FlatMapSettled(pout.results, pout.order))]
    /\ UNCHANGED <<kv, clock, aiRuns, images, last, pin>>

ContextNext == (\E i \in 1..Len(Subreddits) : Settle(i)) \/ ReturnContext

\* every fetch settles and continuations run
SpecContext == ContextInit /\ [][ContextNext]_vars /\ WF_vars(ContextNext)

(***************************************************************************)
(* One table row on its own: a fuel cell, an adjustment cell written as    *)
(* padding, a word, a gap, a number and a tail, and a price cell.  pin     *)
(* holds the row with the value each numeral states; parseAdjustment is    *)
(* applied to the adjustment cell and parseRedditPost to a post whose      *)
(* table has that row.                                                      *)
(***************************************************************************)
\* a numeral and the number it writes; JNaN for a run of [\d.] that writes none
Numeral(text, value) == [text |-> text, value |-> value]

AdjustmentPhrases ==
    {[word |-> word, number |-> number, pad |-> pad, gap |-> gap, tail |-> tail] :
        pad \in {"", "  "},
        word \in {"UP", "down", "Down", "Upward"},
        gap \in {"", " ", "  "},
        number \in {Numeral("3.6", Dec(3, 600)), Numeral("2", Dec(2, 0)),
                    Numeral(".5", Dec(0, 500)), Numeral(".", JNaN)},
        tail \in {"", " cents", " (no change at the border)"}}

PhraseText(p) == p.pad \o p.word \o p.gap \o p.number.text \o p.tail \o p.pad

TablePrices ==
    {Numeral("162.1", Dec(162, 100)), Numeral("10", Dec(10, 0)),
     Numeral("10.001", Dec(10, 1)), Numeral("9.99", Dec(9, 990)),
     Numeral("1.621", Dec(1, 621)), Numeral("0", Dec(0, 0)),
     Numeral("11", Dec(11, 0)), Numeral("100.", Dec(100, 0))}

TableRowsOfParts ==
    {[price |-> price, fuel |-> fuel, phrase |-> phrase] :
        fuel \in {"Regular", "Diesel"}, phrase \in AdjustmentPhrases, price \in TablePrices}

RowPost(row) ==
    RedditPost("p1", REDDIT_AUTHOR, "Gas prices this week",
               TableHeader \o "|" \o row.fuel \o "|" \o PhraseText(row.phrase)
                   \o "|" \o row.price.text \o "|", 0)

RowInit ==
    /\ kv = EmptyStore
    /\ clock = 0
    /\ aiRuns = 0
    /\ images = {}
    /\ last = [op |-> "init", input |-> JNull, response |-> NoResponse, run |-> NoRun]
    /\ pin \in TableRowsOfParts
    /\ pout = [parsed |-> JNull, post |-> JNull]

ParseAdjustment ==
    /\ pout.parsed = JNull
    /\ pout' = [pout EXCEPT !.parsed = parseAdjustment(PhraseText(pin.phrase))]
    /\ UNCHANGED <<kv, clock, aiRuns, images, last, pin>>

ParseRow ==
    /\ pout.post = JNull
    /\ pout' = [pout EXCEPT !.post = parseRedditPost(RowPost(pin))]
    /\ UNCHANGED <<kv, clock, aiRuns, images, last, pin>>

RowNext == ParseAdjustment \/ ParseRow

SpecRow == RowInit /\ [][RowNext]_vars

(***************************************************************************)
(* The writers step by step.  Each KV get and put a handler awaits is a    *)
(* step of its own, so the steps of handlers in flight interleave as the   *)
(* Workers runtime allows.  One invocation per entry point is in flight at *)
(* a time; at most MaxStarts invocations start.  pout holds the            *)
(* invocations (tasks), the predictions whose write has completed, in      *)
(* order of completion (written), and whether a run has thrown (failed).   *)
(***************************************************************************)
MaxStarts == 2

Writers == {"webhook", "post_prediction", "scheduled", "trigger_reddit_scan"}

\* the entry points that run scheduled()
Runs == {"scheduled", "trigger_reddit_scan"}

\* the posts fetchBuckitPost finds during the runs
StepPosts == {PostTable, PostDiesel}

\* an invocation: where it stands, how the one before it ended (skipped,
\* failed), the prediction it builds, the history it has read, the post it
\* found (kept by a run that failed) and the image key it got
Task(pc, outcome, prediction, history, post, key) ==
    [post |-> post,
     prediction |-> prediction,
     history |-> history,
     outcome |-> outcome,
     pc |-> pc,
     key |-> key]

IdleTask(outcome) == Task("idle", outcome, JNull, <<>>, JNull, JNull)

\* a bug: the post id is recorded between reading and writing the history
FollowingIdEarly(w, pc) ==
    CASE pc = "put_latest" -> "get_history"
      [] pc = "get_history" -> IF w \in Runs THEN "put_last_id" ELSE "put_history"
      [] pc = "put_last_id" -> "put_history"
      [] OTHER -> "idle"

\* the await that follows pc in writePrediction and in the handler that
\* called it: put latest_prediction, get prediction_history, put
\* prediction_history, and in scheduled() put last_processed_post_id
Following(w, pc) ==
    CASE pc = "put_latest" -> "get_history"
      [] pc = "get_history" -> "put_history"
      [] pc = "put_history" -> IF w \in Runs THEN "put_last_id" ELSE "idle"
      [] OTHER -> "idle"

StepInit ==
    /\ kv = EmptyStore
    /\ clock = 0
    /\ aiRuns = 0
    /\ images = {}
    /\ last = [op |-> "init", input |-> JNull, response |-> NoResponse, run |-> NoRun]
    /\ pin = JNull
    /\ pout = [tasks |-> [w \in Writers |-> IdleTask("none")], written |-> <<>>,
               failed |-> FALSE]

\* task w moves on
Moved(w, task) == pout' = [pout EXCEPT !.tasks[w] = task]

\* POST /webhook with an accepted body: validated, the prediction built
BeginWebhook ==
    /\ clock < MaxStarts
    /\ pout.tasks["webhook"].pc = "idle"
    /\ clock' = clock + 1
    /\ Moved("webhook",
             Task("put_latest", "none",
                  Stringify(handleWebhook(Request(FALSE, GoodAuth, LegacyValid), clock).prediction),
                  <<>>, JNull, JNull))
    /\ UNCHANGED <<kv, aiRuns, images, last, pin>>

\* post_prediction with accepted arguments: validated, the prediction built
BeginPostPrediction ==
    /\ clock < MaxStarts
    /\ pout.tasks["post_prediction"].pc = "idle"
    /\ clock' = clock + 1
    /\ Moved("post_prediction",
             Task("put_latest", "none",
                  Stringify(post_prediction(McpArgs(JStr("up"), Dec(1, 720), JStr("gas"),
                                                    JStr(WEBHOOK_SECRET)), clock).prediction),
                  <<>>, JNull, JNull))
    /\ UNCHANGED <<kv, aiRuns, images, last, pin>>

\* scheduled() starts, from cron or from trigger_reddit_scan, and
\* fetchBuckitPost resolves to post
BeginRun(w, post) ==
    /\ clock < MaxStarts
    /\ pout.tasks[w].pc = "idle"
    /\ clock' = clock + 1
    /\ Moved(w, Task("get_last_id", "none", JNull, <<>>, post, JNull))
    /\ UNCHANGED <<kv, aiRuns, images, last, pin>>

\* lines 1316-1337: the dedup read, and for a new post the prediction
GetLastId(w) ==
    /\ pout.tasks[w].pc = "get_last_id"
    /\ \E post \in {pout.tasks[w].post} :
           IF AlreadyProcessed(kv, post)
           THEN Moved(w, IdleTask("skipped"))
           ELSE Moved(w, Task(IF Truthy(ActionableDirection(ImageDirection(ParsedPosts[post])))
                              THEN "image" ELSE "put_latest",
                              "none", RedditPrediction(post, ParsedPosts[post], clock),
                              <<>>, post, JNull))
    /\ UNCHANGED <<kv, clock, aiRuns, images, last, pin>>

\* line 1341: generateAndStoreImage resolves
GenerateImage(w, ai) ==
    /\ pout.tasks[w].pc = "image"
    /\ \E key \in {generateAndStoreImage(pout.tasks[w].post.id, ai)} :
           /\ images' = IF Truthy(key) THEN images \cup {key.s} ELSE images
           /\ Moved(w, [pout.tasks[w] EXCEPT !.pc = IF Truthy(key) THEN "put_image_key"
                                                     ELSE "put_latest",
                                              !.key = key])
    /\ aiRuns' = aiRuns + 1
    /\ UNCHANGED <<kv, clock, last, pin>>

\* lines 1343-1344: put latest_image_key, attach the key
PutImageKey(w) ==
    /\ pout.tasks[w].pc = "put_image_key"
    /\ kv' = [kv EXCEPT !.latest_image_key = pout.tasks[w].key]
    /\ Moved(w, [pout.tasks[w] EXCEPT !.pc = "put_latest",
                                       !.prediction = WithImageKey(@, pout.tasks[w].key)])
    /\ UNCHANGED <<clock, aiRuns, images, last, pin>>

\* put('latest_prediction', JSON.stringify(prediction))
PutLatest(w) ==
    /\ pout.tasks[w].pc = "put_latest"
    /\ kv' = [kv EXCEPT !.latest_prediction = Stringify(pout.tasks[w].prediction)]
    /\ Moved(w, [pout.tasks[w] EXCEPT !.pc = Following(w, "put_latest"),
                                       !.prediction = Stringify(@)])
    /\ UNCHANGED <<clock, aiRuns, images, last, pin>>

\* get('prediction_history')
GetHistory(w) ==
    /\ pout.tasks[w].pc = "get_history"
    /\ Moved(w, [pout.tasks[w] EXCEPT !.pc = Following(w, "get_history"),
                                       !.history = ReadHistory(kv)])
    /\ UNCHANGED <<kv, clock, aiRuns, images, last, pin>>

\* unshift, splice, put('prediction_history', ...): the write is complete
PutHistory(w) ==
    /\ pout.tasks[w].pc = "put_history"
    /\ kv' = [kv EXCEPT !.prediction_history =
                  JArray(UnshiftCapped(pout.tasks[w].history, pout.tasks[w].prediction,
                                       MAX_HISTORY))]
    /\ pout' = [pout EXCEPT
                   !.tasks[w] = IF Following(w, "put_history") = "idle"
                                THEN IdleTask("none")
                                ELSE [@ EXCEPT !.pc = Following(w, "put_history")],
                   !.written = Append(@, pout.tasks[w].prediction)]
    /\ UNCHANGED <<clock, aiRuns, images, last, pin>>

\* line 1349: put('last_processed_post_id', post.id)
PutLastId(w) ==
    /\ pout.tasks[w].pc = "put_last_id"
    /\ kv' = [kv EXCEPT !.last_processed_post_id = JStr(pout.tasks[w].post.id)]
    /\ Moved(w, IF Following(w, "put_last_id") = "idle" THEN IdleTask("none")
                ELSE [pout.tasks[w] EXCEPT !.pc = Following(w, "put_last_id")])
    /\ UNCHANGED <<clock, aiRuns, images, last, pin>>

\* the await a run of scheduled() stands at rejects: the run ends there
Fail(w) ==
    /\ w \in Runs
    /\ pout.tasks[w].pc # "idle"
    /\ pout' = [pout EXCEPT !.tasks[w] = [IdleTask("failed") EXCEPT !.post = pout.tasks[w].post],
                            !.failed = TRUE]
    /\ UNCHANGED <<kv, clock, aiRuns, images, last, pin>>

StepNext ==
    \/ BeginWebhook
    \/ BeginPostPrediction
    \/ \E w \in Runs, post \in StepPosts : BeginRun(w, post)
    \/ \E w \in Runs : GetLastId(w)
    \/ \E w \in Runs, ai \in {"image", "throws"} : GenerateImage(w, ai)
    \/ \E w \in Runs : PutImageKey(w)
    \/ \E w \in Writers : PutLatest(w)
    \/ \E w \in Writers : GetHistory(w)
    \/ \E w \in Writers : PutHistory(w)
    \/ \E w \in Runs : PutLastId(w)
    \/ \E w \in Runs : Fail(w)

SpecSteps == StepInit /\ [][StepNext]_vars

(***************************************************************************)
(* Properties of handleWebhook.                                            *)
(***************************************************************************)
\* the request the last step handled came to POST /webhook
WebhookHandled == last.op = "webhook"

\* the bearer token is missing or differs from WEBHOOK_SECRET: the header is
\* not exactly "Bearer " followed by the secret
BadAuthentication(req) == req.authorization # JStr("Bearer " \o WEBHOOK_SECRET)

InvalidDirectionBody ==
    Obj([gas |-> Obj([direction |-> JStr("sideways"), price |-> Dec(1, 500)])])

\* C1, as amended: every POST /webhook request whose URL has no secret query
\* parameter and whose bearer token is missing or differs from WEBHOOK_SECRET
\* is answered 401 Unauthorized, whatever its body (so before any check of
\* the body), and it writes nothing.
C1_UnauthorizedBeforeBodyChecks ==
    [][(last'.op = "webhook" /\ BadAuthentication(last'.input) /\ ~last'.input.secret_param)
           => /\ last'.response.status = 401
              /\ last'.response.error = "Unauthorized"
              /\ kv' = kv]_vars

\* an invalid direction with a wrong token and no ?secret= was answered 401
C1_Witness ==
    /\ WebhookHandled
    /\ last.input.authorization = JStr("Bearer wrong")
    /\ ~last.input.secret_param
    /\ last.input.body = InvalidDirectionBody
    /\ last.response.status = 401

\* C1, as stated: no request with bad authentication ever receives anything
\* but 401, whatever its URL or payload.
C1_AsStated ==
    (WebhookHandled /\ BadAuthentication(last.input)) => last.response.status = 401

\* C5, as stated: every POST /webhook request ends in success (200 with the
\* prediction persisted), a 400 rejection with a message or a 401 rejection
\* with a message; the handler fails in no other way.
C5_AsStated ==
    WebhookHandled =>
        /\ ~last.response.threw
        /\ \/ last.response.status = 200 /\ last.response.prediction # JNull
           \/ last.response.status \in {400, 401} /\ last.response.error # ""

\* C6: a POST /webhook request whose URL carries a secret query parameter is
\* answered 400 and writes nothing to KV, with or without a valid bearer token.
C6_SecretParamRejected ==
    [][(last'.op = "webhook" /\ last'.input.secret_param)
           => /\ last'.response.status = 400
              /\ kv' = kv
              /\ clock' = clock]_vars

\* ?secret= together with the valid bearer token and a valid body was answered 400
C6_Witness ==
    /\ WebhookHandled
    /\ last.input.secret_param
    /\ last.input.authorization = JStr("Bearer " \o WEBHOOK_SECRET)
    /\ last.input.body \in AcceptedBodies
    /\ last.response.status = 400

(***************************************************************************)
(* Properties of the store.                                                *)
(***************************************************************************)
\* null, or a { direction, adjustment, price } slot
IsSlotOrNull(v) ==
    \/ v = JNull
    \/ v.t = "object" /\ DOMAIN v = {"t", "direction", "adjustment", "price"}

\* the canonical shape: gas and diesel slots, notes, source and timestamp
IsCanonical(p) ==
    /\ {"gas", "diesel", "notes", "source", "updated_at"} \subseteq DOMAIN p
    /\ IsSlotOrNull(p.gas)
    /\ IsSlotOrNull(p.diesel)

StoredRecords ==
    (IF kv.latest_prediction = JNull THEN {} ELSE {kv.latest_prediction})
        \cup {ReadHistory(kv)[i] : i \in 1..Len(ReadHistory(kv))}

\* C2, as stated: every record stored in latest_prediction or in
\* prediction_history, whichever of the scheduled job, the webhook and the MCP
\* tool post_prediction wrote it, has the canonical shape.
C2_AsStated == \A p \in StoredRecords : IsCanonical(p)

\* the history before and after a step
HistoryBefore == ReadHistory(kv)
HistoryAfter == ReadHistory(kv')

\* C3: after any sequence of prediction writes (scheduled job, webhook, MCP
\* post_prediction) prediction_history holds at most MAX_HISTORY entries, the
\* most recent first; a write puts its record in front of the entries held
\* before, and a write into a full history drops exactly the oldest of them.
C3_HistoryCapped ==
    /\ [](/\ Len(ReadHistory(kv)) <= MAX_HISTORY
          /\ \A i \in 1..(Len(ReadHistory(kv)) - 1) :
                 ReadHistory(kv)[i].updated_at > ReadHistory(kv)[i + 1].updated_at)
    /\ [][clock' # clock =>
             /\ HistoryAfter[1] = kv'.latest_prediction
             /\ HistoryAfter[1].updated_at = clock
             /\ IF Len(HistoryBefore) = MAX_HISTORY
                THEN Tail(HistoryAfter) = SubSeq(HistoryBefore, 1, MAX_HISTORY - 1)
                ELSE Tail(HistoryAfter) = HistoryBefore]_vars

\* a full history that has dropped an entry and holds records of two sources
C3_Witness ==
    /\ Len(ReadHistory(kv)) = MAX_HISTORY
    /\ clock > MAX_HISTORY
    /\ ReadHistory(kv)[1].updated_at = clock - 1
    /\ \E i, j \in 1..Len(ReadHistory(kv)) :
           ReadHistory(kv)[i].source # ReadHistory(kv)[j].source

\* C4: a scheduled run that finds the post whose id is last_processed_post_id
\* changes no KV key and generates no image; and after a run has processed a
\* post, a further run that finds the same post leaves the store as it is, so
\* running the job again on the same post has the effect of running it once.
C4_ScheduledIdempotent ==
    /\ [][last'.run.outcome = "skipped" =>
             /\ kv' = kv
             /\ aiRuns' = aiRuns
             /\ images' = images]_vars
    /\ [](last.run.outcome = "processed" =>
             \A fetch \in Fetches, ai \in AIOutcomes :
                 (/\ fetch.ok
                  /\ FetchedPosts[fetch] # JNull
                  /\ JStr(FetchedPosts[fetch].id) = last.run.post_id)
                     => /\ scheduled(kv, fetch, ai, clock).store = kv
                        /\ ~scheduled(kv, fetch, ai, clock).ai_called)

\* a run skipped the post an earlier run had stored
C4_Witness ==
    /\ last.run.outcome = "skipped"
    /\ kv.latest_prediction # JNull
    /\ kv.last_processed_post_id = last.run.post_id

(***************************************************************************)
(* Properties of the fuel slots.                                           *)
(***************************************************************************)
\* the slots of a { gas, diesel } pair that are not null
SlotsOf(p) == {v \in {p.gas, p.diesel} : v.t = "object"}

\* null, or a number that is not NaN and not below zero
NonNegativeOrNull(v) == v = JNull \/ (v.t = "number" /\ v.s # "NaN" /\ v.n >= 0)

\* the prediction the last step produced: the one the webhook accepted, or
\* the one the parser returned to a scheduled run
ProducedSlots ==
    IF last.op = "webhook" /\ last.response.status = 200
    THEN SlotsOf(last.response.prediction)
    ELSE IF last.run.outcome = "processed" THEN SlotsOf(last.run.parsed)
    ELSE {}

\* C7, as stated: in every fuel slot of every prediction the parser produced
\* or the webhook accepted, adjustment is null or a non-negative number.
C7_AsStated == \A v \in ProducedSlots : NonNegativeOrNull(v.adjustment)

\* the post holds a table row: every line of the harness that starts a cell
\* is a row tableRowRe matches
HasTableRow(post) == Contains(post.selftext.s, "|")

\* C8, as amended: a slot parseRedditPost fills from a table has adjustment 0
\* whenever its direction is no-change; a slot the free-text fallback fills
\* has adjustment null whatever its direction, no-change included.
C8_NoChangeByPath ==
    pout # JNull =>
        IF HasTableRow(pin)
        THEN \A v \in SlotsOf(pout) :
                 v.direction = JStr("no-change") => v.adjustment = JNum(0)
        ELSE \A v \in SlotsOf(pout) : v.adjustment = JNull

\* a table row saying NO CHANGE gave gas the adjustment 0
C8_Witness ==
    /\ pout # JNull
    /\ HasTableRow(pin)
    /\ pout.gas # JNull
    /\ pout.gas.direction = JStr("no-change")
    /\ pout.gas.adjustment = JNum(0)

\* C8, as stated: whenever a slot returned by parseRedditPost has direction
\* no-change, its adjustment is 0, not null, on the table path and on the
\* free-text path.
C8_AsStated ==
    pout # JNull =>
        \A v \in SlotsOf(pout) : v.direction = JStr("no-change") => v.adjustment = JNum(0)

(***************************************************************************)
(* Properties of the image step of scheduled().                            *)
(***************************************************************************)
IsUpOrDown(v) == v = JStr("up") \/ v = JStr("down")

\* C9, as stated: a scheduled run that processes a new post attempts image
\* generation every time the parsed gas direction or the parsed diesel
\* direction is up or down.
C9_AsStated ==
    (/\ last.run.outcome = "processed"
     /\ \E v \in SlotsOf(last.run.parsed) : IsUpOrDown(v.direction))
        => last.run.ai_called

\* C10: a scheduled run whose direction (the gas slot's, the diesel slot's
\* when there is no gas direction) is not up or down, so no-change or none,
\* does not invoke the AI image generator, stores no image and leaves
\* latest_image_key as it was; the generator runs only for up or down.
C10_NoImageForNoChange ==
    [][(last'.run.outcome = "processed"
            => IF IsUpOrDown(ImageDirection(last'.run.parsed))
               THEN aiRuns' = aiRuns + 1
               ELSE /\ aiRuns' = aiRuns
                    /\ images' = images
                    /\ kv'.latest_image_key = kv.latest_image_key
                    /\ "image_key" \notin DOMAIN kv'.latest_prediction)
        /\ (aiRuns' # aiRuns => last'.run.outcome = "processed")]_vars

\* a no-change post was processed after an image had been stored: no AI call,
\* and the earlier key is still there
C10_Witness ==
    /\ last.run.outcome = "processed"
    /\ ImageDirection(last.run.parsed) = JStr("no-change")
    /\ ~last.run.ai_called
    /\ kv.latest_image_key # JNull
    /\ kv.latest_prediction.post_id = last.run.post_id

(***************************************************************************)
(* Properties of the webhook's validation rules.                           *)
(***************************************************************************)
\* the last step handled a POST /webhook request that passed authentication
\* and whose body request.json() parsed to something other than null
BodyValidated ==
    /\ WebhookHandled
    /\ ~last.input.secret_param
    /\ ~BadAuthentication(last.input)
    /\ last.input.body.t \notin {"invalid", "null"}

IsDualFuelBody(body) == Prop(body, "gas") # JUndef \/ Prop(body, "diesel") # JUndef

\* a slot that is given breaks the direction rule / the price rule
BreaksSlotDirection(slot) ==
    Truthy(slot) /\ Prop(slot, "direction") \notin {JStr("up"), JStr("down"), JStr("no-change")}
BreaksSlotPrice(slot) ==
    /\ Truthy(slot)
    /\ Prop(slot, "price") \notin {JUndef, JNull}
    /\ NotANumber(Prop(slot, "price"))

\* every rule in the order of the specification, each with whether the body
\* breaks it and the message of its rejection
DualFuelRules(body) ==
    << <<BreaksSlotDirection(Prop(body, "gas")),
         "gas.direction must be one of: up, down, no-change">>,
       <<BreaksSlotPrice(Prop(body, "gas")), "gas.price must be a number if provided">>,
       <<BreaksSlotDirection(Prop(body, "diesel")),
         "diesel.direction must be one of: up, down, no-change">>,
       <<BreaksSlotPrice(Prop(body, "diesel")), "diesel.price must be a number if provided">> >>

LegacyRules(body) ==
    << <<Prop(body, "direction") \notin {JStr("up"), JStr("down"), JStr("no-change")},
         "Invalid direction">>,
       <<Prop(body, "fuel_type") \notin {JUndef, JStr("gas"), JStr("diesel")},
         "Invalid fuel_type">>,
       <<NotANumber(Prop(body, "predicted_price")), "predicted_price must be a number">>,
       <<Prop(body, "current_price") # JUndef /\ NotANumber(Prop(body, "current_price")),
         "current_price must be a number if provided">> >>

IsBroken(rule) == rule[1]

\* the rules the body breaks, in rule order
BrokenRules(body) ==
    SelectSeq(IF IsDualFuelBody(body) THEN DualFuelRules(body) ELSE LegacyRules(body),
              IsBroken)

\* C11: the webhook validator reports only the first failure in the fixed
\* order gas.direction, gas.price, diesel.direction, diesel.price (dual-fuel
\* shape) and direction, fuel_type, predicted_price, current_price (legacy
\* shape): a body that breaks one or several rules is answered 400 with the
\* message of the earliest rule it breaks, and nothing is written.
C11_FirstFailureWins ==
    [][(BodyValidated' /\ BrokenRules(last'.input.body) # <<>>)
           => /\ last'.response.status = 400
              /\ last'.response.error = BrokenRules(last'.input.body)[1][2]
              /\ kv' = kv]_vars

\* a body breaking gas.price, diesel.direction and diesel.price was answered
\* with the message of gas.price
C11_Witness ==
    /\ BodyValidated
    /\ Len(BrokenRules(last.input.body)) = 3
    /\ last.response.status = 400
    /\ last.response.error = "gas.price must be a number if provided"

(***************************************************************************)
(* Properties of the two wire shapes.                                      *)
(***************************************************************************)
\* a stored prediction apart from its timestamp
WithoutTimestamp(p) == [f \in DOMAIN p \ {"updated_at"} |-> p[f]]

\* C12: for every direction, fuel and numeric price, the legacy submission
\* { direction, predicted_price, fuel_type } and the dual-fuel submission
\* { fuel: { direction, price } } are both accepted, and what each persists
\* is, apart from the timestamp, the record either shape produces; so all
\* the records the history holds are the same apart from their timestamps.
C12_WireShapesAgree ==
    /\ [][last'.op = "webhook"
             => /\ last'.response.status = 200
                /\ \A body \in {LegacyBody(pin), DualFuelBody(pin)} :
                       WithoutTimestamp(kv'.latest_prediction) =
                           WithoutTimestamp(Stringify(
                               handleWebhook(Request(FALSE, GoodAuth, body), 0).prediction))]_vars
    /\ [](\A i, j \in 1..Len(ReadHistory(kv)) :
              WithoutTimestamp(ReadHistory(kv)[i]) = WithoutTimestamp(ReadHistory(kv)[j]))

\* a diesel submission sent in the dual-fuel shape after it was stored once:
\* both records are held and the diesel slot carries the submission
C12_Witness ==
    /\ last.op = "webhook"
    /\ last.input.body = DualFuelBody(pin)
    /\ pin.fuel_type = JStr("diesel")
    /\ Len(ReadHistory(kv)) = 2
    /\ kv.latest_prediction.gas = JNull
    /\ kv.latest_prediction.diesel = Slot(pin.direction, JNull, pin.price)

(***************************************************************************)
(* Properties shared by the webhook and the MCP tool.                      *)
(***************************************************************************)
\* the legacy webhook request carrying what a post_prediction call carries
LegacyRequestOf(args) ==
    Request(FALSE, GoodAuth,
            LegacyBody([direction |-> args.direction, price |-> args.predicted_price,
                        fuel_type |-> args.fuel_type]))

ScheduledRan == last.run.outcome # "none"

\* C14: when the fetch of the Reddit listing fails (a rejected fetch or a
\* non-OK answer) the scheduled run returns without throwing, as a run that
\* found no input (the MCP tool that awaited it answers ok), and it leaves
\* every KV key as it was, generates no image and writes nothing.
C14_FetchFailureIsNoInput ==
    [][(ScheduledRan' /\ last'.run.fetch \in {"network_error", "not_ok"})
           => /\ last'.run.outcome \in {"fetch_error", "no_post"}
              /\ (last'.op = "trigger_reddit_scan" => last'.response.status = 200)
              /\ kv' = kv
              /\ clock' = clock
              /\ aiRuns' = aiRuns
              /\ images' = images]_vars

\* the fetch was rejected on a store that already held a processed post
C14_Witness ==
    /\ ScheduledRan
    /\ last.run.fetch = "network_error"
    /\ last.run.outcome = "fetch_error"
    /\ kv.last_processed_post_id # JNull
    /\ kv.latest_prediction # JNull

\* the last run processed a post, called the AI, and got no image key: the
\* AI call threw or returned no image
ImageFailed ==
    /\ last.run.outcome = "processed"
    /\ last.run.ai_called
    /\ last.run.image_key = JNull

\* C15, as stated: when the AI call fails or returns no image during a
\* scheduled run, the prediction is still saved (latest_prediction,
\* prediction_history and last_processed_post_id are written) and
\* latest_image_key is null afterwards.
C15_AsStated ==
    ImageFailed =>
        /\ kv.latest_prediction.post_id = last.run.post_id
        /\ ReadHistory(kv)[1] = kv.latest_prediction
        /\ kv.last_processed_post_id = last.run.post_id
        /\ kv.latest_image_key = JNull

(***************************************************************************)
(* Properties of fetchCommunityContext.                                    *)
(***************************************************************************)
\* the titles a subreddit contributes: those of a well-formed OK listing,
\* none when its fetch failed, was not OK or gave malformed data
ContributedTitles(f) ==
    IF /\ f.ok
       /\ f.kind = "response"
       /\ \A i \in 1..Len(f.children) : f.children[i] # JNull
    THEN FilterTruthy(f.children)
    ELSE <<>>

\* C16: fetchCommunityContext always resolves and never rejects; a subreddit
\* whose fetch fails, is not OK or gives malformed data contributes an empty
\* list while the other subreddit's titles are still returned, halifax's
\* first and novascotia's second, whichever fetch completes first.
C16_ContextAlwaysResolves ==
    /\ [](pout.returned.status \in {"pending", "fulfilled"})
    /\ [](pout.returned.status = "fulfilled"
             => pout.returned.value = ContributedTitles(pin[1]) \o ContributedTitles(pin[2]))
    /\ <>(pout.returned.status = "fulfilled")

\* novascotia completed first and halifax's listing was malformed: only
\* novascotia's titles are returned
C16_Witness ==
    /\ pout.returned.status = "fulfilled"
    /\ pout.order = <<2, 1>>
    /\ pin[1].children = BrokenChildren
    /\ pin[2].children = NovaScotiaChildren
    /\ pout.returned.value = <<"Lobster season">>

(***************************************************************************)
(* Properties of notes.                                                    *)
(***************************************************************************)
\* C17, as stated: in every prediction stored, from the parser, the webhook
\* or the MCP tool, notes is null or a string of at most 500 characters, and
\* never an empty string.
C17_AsStated ==
    \A p \in StoredRecords :
        \/ p.notes = JNull
        \/ /\ p.notes.t = "string"
           /\ Len(p.notes.s) <= NOTES_MAX
           /\ p.notes.s # ""

(***************************************************************************)
(* Properties of the table strategy.                                       *)
(***************************************************************************)
\* the rows among the lines of the parser harness: the slot each targets and
\* the values it states (an adjustment in cents, a price in dollars)
TableRows ==
    [l \in {"|Regular| UP 3.6 |162.1|", "|Diesel| DOWN 0.7 |154.4|",
            "|Gas| NO CHANGE |127.5|", "|Diesel| UP . |10|",
            "|Gasoline| down 2.0 |160|"} |->
        CASE l = "|Regular| UP 3.6 |162.1|" ->
                 <<"gas", Slot(JStr("up"), Dec(3, 600), Dec(1, 621))>>
          [] l = "|Diesel| DOWN 0.7 |154.4|" ->
                 <<"diesel", Slot(JStr("down"), Dec(0, 700), Dec(1, 544))>>
          [] l = "|Gas| NO CHANGE |127.5|" ->
                 <<"gas", Slot(JStr("no-change"), JNum(0), Dec(1, 275))>>
          [] l = "|Diesel| UP . |10|" ->
                 <<"diesel", Slot(JStr("up"), JNaN, Dec(10, 0))>>
          [] l = "|Gasoline| down 2.0 |160|" ->
                 <<"gas", Slot(JStr("down"), Dec(2, 0), Dec(1, 600))>>]

\* the lines of the post's selftext that are rows, in document order
RowsOf(post) ==
    LET IsRow(l) == l \in DOMAIN TableRows
    IN  SelectSeq(SplitLines(post.selftext.s, 1), IsRow)

\* the values of the last row of rows that targets fuel, null without one
LastRowFor(rows, fuel) ==
    IF \E i \in 1..Len(rows) : TableRows[rows[i]][1] = fuel
    THEN TableRows[rows[CHOOSE i \in 1..Len(rows) :
                            /\ TableRows[rows[i]][1] = fuel
                            /\ \A j \in (i + 1)..Len(rows) : TableRows[rows[j]][1] # fuel]][2]
    ELSE JNull

\* C18: for every sequence of matching table rows in a post, each fuel slot
\* holds the values of the last row in document order that targets it (rows
\* naming regular, gas or gasoline target gas, diesel rows target diesel),
\* and a slot no row targets is null.
C18_LastRowWins ==
    (pout # JNull /\ Len(RowsOf(pin)) > 0)
        => /\ pout.gas = LastRowFor(RowsOf(pin), "gas")
           /\ pout.diesel = LastRowFor(RowsOf(pin), "diesel")

\* two rows target gas: gas holds the second one, and diesel is null
C18_Witness ==
    /\ pout # JNull
    /\ RowsOf(pin) = <<"|Regular| UP 3.6 |162.1|", "|Gasoline| down 2.0 |160|">>
    /\ pout.gas = Slot(JStr("down"), Dec(2, 0), Dec(1, 600))
    /\ pout.diesel = JNull

\* the values the rows of rows state for fuel
RowValuesFor(rows, fuel) ==
    {TableRows[rows[i]][2] : i \in {j \in 1..Len(rows) : TableRows[rows[j]][1] = fuel}}

\* the text of the post holds what the free-text strategy looks for
HasFreeTextCues(post) ==
    /\ FreeTextDirection(ToLower(post.title \o " " \o post.selftext.s)) # JNull
    /\ Contains(post.selftext.s, "$")
    /\ Contains(ToLower(post.title), "diesel")

\* C19: the free-text strategy runs only when the table strategy matched no
\* row: when at least one row matched, each slot holds values a table row
\* states for it, and a slot without a row is null, whatever direction
\* keywords, dollar amounts or the word diesel occur in the title or body.
C19_FreeTextOnlyWithoutRows ==
    (pout # JNull /\ Len(RowsOf(pin)) > 0)
        => \A fuel \in {"gas", "diesel"} :
               IF RowValuesFor(RowsOf(pin), fuel) = {}
               THEN pout[fuel] = JNull
               ELSE pout[fuel] \in RowValuesFor(RowsOf(pin), fuel)

\* a post naming diesel and a drop in its title and a dollar amount in its
\* body, with a row for gas only: diesel stays null
C19_Witness ==
    /\ pout # JNull
    /\ HasFreeTextCues(pin)
    /\ RowsOf(pin) = <<"|Regular| UP 3.6 |162.1|">>
    /\ pout.gas = Slot(JStr("up"), Dec(3, 600), Dec(1, 621))
    /\ pout.diesel = JNull

(***************************************************************************)
(* Properties of the free-text strategy.                                   *)
(***************************************************************************)
\* what the titles and the lines of the parser harness say about the price:
\* the keyword families each of them holds
Cues ==
    [l \in ParseTitles \cup (ParseLines \ DOMAIN TableRows) |->
        CASE l = "Diesel to drop, regular up" -> {"up", "down"}
          [] l = "No change expected, $1.544" -> {"no-change"}
          [] l = "Prices fall Friday." -> {"down"}
          [] l = "Fill up tonight." -> {"up"}
          [] OTHER -> {}]

\* the families the title and the lines of a post without rows hold
CuesOf(post) ==
    Cues[post.title] \cup
        UNION {Cues[l] : l \in {SplitLines(post.selftext.s, 1)[i] :
                                   i \in 1..Len(SplitLines(post.selftext.s, 1))} \ {""}}

\* no-change first, then down, then up, null without any
ExpectedDirection(cues) ==
    IF "no-change" \in cues THEN JStr("no-change")
    ELSE IF "down" \in cues THEN JStr("down")
    ELSE IF "up" \in cues THEN JStr("up")
    ELSE JNull

\* C20: in the free-text fallback the direction follows a fixed priority:
\* no-change phrasing wins over every keyword; otherwise, with keywords of
\* the up family and of the down family, the direction is down; otherwise
\* the one family that occurs; without any keyword the direction is null.
C20_FreeTextPriority ==
    (pout # JNull /\ Len(RowsOf(pin)) = 0)
        => /\ Cardinality(SlotsOf(pout)) = 1
           /\ \A v \in SlotsOf(pout) : v.direction = ExpectedDirection(CuesOf(pin))

\* keywords of both families and no no-change phrasing: the direction is down
C20_Witness ==
    /\ pout # JNull
    /\ Len(RowsOf(pin)) = 0
    /\ CuesOf(pin) = {"up", "down"}
    /\ pin.selftext.s = "Fill up tonight."
    /\ pout.diesel # JNull
    /\ pout.diesel.direction = JStr("down")

(***************************************************************************)
(* Properties of parseAdjustment.                                          *)
(***************************************************************************)
\* the phrase, trimmed and lower-cased, matches ^(up|down)\s+N with N a numeral
MatchesUpDownN(p) ==
    /\ p.word \in {"UP", "down", "Down"}
    /\ p.gap # ""
    /\ p.number.value # JNaN

\* the phrase holds "no change" somewhere
MentionsNoChange(p) == p.tail = " (no change at the border)"

DirectionOfWord(word) == IF word = "UP" THEN JStr("up") ELSE JStr("down")

\* C21, as amended: for every adjustment phrase that, trimmed and without
\* regard to case, matches ^(up|down)\s+N and holds no "no change",
\* parseAdjustment returns that direction with adjustment equal to N; a
\* phrase that holds "no change" gives no-change with adjustment 0 even when
\* it starts with up or down and a number.
C21_UpDownNumber ==
    pout.parsed # JNull =>
        /\ (MatchesUpDownN(pin.phrase) /\ ~MentionsNoChange(pin.phrase))
               => pout.parsed = [direction |-> DirectionOfWord(pin.phrase.word),
                                 adjustment |-> pin.phrase.number.value]
        /\ MentionsNoChange(pin.phrase)
               => pout.parsed = [direction |-> JStr("no-change"), adjustment |-> JNum(0)]

\* "  Down  .5 cents  " gave down with adjustment 0.5
C21_Witness ==
    /\ PhraseText(pin.phrase) = "  Down  .5 cents  "
    /\ pout.parsed = [direction |-> JStr("down"), adjustment |-> Dec(0, 500)]

\* C21, as stated: for every adjustment phrase that, trimmed and without
\* regard to case, matches ^(up|down)\s+N, parseAdjustment returns that
\* direction with adjustment equal to N.
C21_AsStated ==
    (pout.parsed # JNull /\ MatchesUpDownN(pin.phrase))
        => pout.parsed = [direction |-> DirectionOfWord(pin.phrase.word),
                          adjustment |-> pin.phrase.number.value]

(***************************************************************************)
(* Properties of the price of a table row.                                 *)
(***************************************************************************)
\* the slot the row of the harness targets
RowTarget(row) == IF row.fuel = "Diesel" THEN "diesel" ELSE "gas"

\* C22: for every numeric table price v, the slot's price is v / 100 when
\* v > 10 and v itself when v <= 10; a price of exactly 10 is kept as dollars.
C22_CentsAboveTen ==
    pout.post # JNull =>
        /\ pout.post[RowTarget(pin)] # JNull
        /\ pout.post[RowTarget(pin)].price =
               IF pin.price.value.n > 10 * Scale
               THEN JNum(pin.price.value.n \div 100)
               ELSE pin.price.value

\* a row whose price cell is 10: the slot's price is 10 dollars
C22_Witness ==
    /\ pin.price.text = "10"
    /\ pout.post # JNull
    /\ pout.post[RowTarget(pin)].price = Dec(10, 0)

(***************************************************************************)
(* Properties of the three writers taken together.                         *)
(***************************************************************************)
\* the step handled a request of a caller, on POST /webhook or on an MCP tool
IsRequest(l) == l.op \in {"webhook", "post_prediction", "trigger_reddit_scan"}

\* the request does not carry WEBHOOK_SECRET where the handler looks for it
LacksSecret(l) ==
    IF l.op = "webhook" THEN BadAuthentication(l.input)
    ELSE l.input.secret # JStr(WEBHOOK_SECRET)

\* C23: a rejected write request leaves every KV key as it was: a POST
\* /webhook answered 400 or 401 and an MCP post_prediction or
\* trigger_reddit_scan call answered with status 400 or 401 put nothing; and
\* no request lacking the correct secret changes KV.
C23_RejectedWritesNothing ==
    [][IsRequest(last') =>
           /\ last'.response.status \in {400, 401} => kv' = kv
           /\ LacksSecret(last') => kv' = kv]_vars

\* a post_prediction call with a wrong secret, answered 401, on a store that
\* holds a prediction and a history
C23_Witness ==
    /\ last.op = "post_prediction"
    /\ LacksSecret(last)
    /\ last.response.status = 401
    /\ kv.latest_prediction # JNull
    /\ Len(ReadHistory(kv)) = 2

(***************************************************************************)
(* Properties of the writers when their KV steps interleave.               *)
(***************************************************************************)
\* no invocation is in flight
Quiescent == \A w \in Writers : pout.tasks[w].pc = "idle"

\* the entries of prediction_history
HistoryEntries == {ReadHistory(kv)[j] : j \in 1..Len(ReadHistory(kv))}

\* C24, as stated: every prediction whose write has completed is in
\* prediction_history until MAX_HISTORY newer predictions have been inserted,
\* even when the KV get and put steps of two writers interleave.
C24_AsStated ==
    \A i \in 1..Len(pout.written) :
        Len(pout.written) - i < MAX_HISTORY => pout.written[i] \in HistoryEntries

\* C25, as stated: whenever no write is in progress and at least one
\* prediction has been written, latest_prediction equals the first element
\* of prediction_history, for any interleaving of the writers.
C25_AsStated ==
    (Quiescent /\ ~pout.failed /\ Len(pout.written) > 0)
        => /\ Len(ReadHistory(kv)) > 0
           /\ kv.latest_prediction = ReadHistory(kv)[1]

\* C26, as stated: prediction_history never holds two entries with the same
\* non-null post_id, also when a cron run overlaps a run started by
\* trigger_reddit_scan.
C26_AsStated ==
    \A i, j \in 1..Len(ReadHistory(kv)) :
        (i < j /\ ReadHistory(kv)[i].post_id = ReadHistory(kv)[j].post_id)
            => ReadHistory(kv)[i].post_id = JNull

\* the post ids of the predictions whose write has completed
WrittenPostIds == {pout.written[i].post_id : i \in 1..Len(pout.written)}

\* C28: a scheduled run sets last_processed_post_id to a post's id only
\* after that post's prediction has been written to latest_prediction and
\* prediction_history; a run that fails at an earlier step leaves
\* last_processed_post_id as it was, and a run skips a post only when a
\* prediction for it has been written, so a post whose run failed is
\* processed again.
C28_IdAfterWrite ==
    [][/\ kv'.last_processed_post_id # kv.last_processed_post_id
              => \E w \in Runs :
                     /\ pout.tasks[w].pc = "put_last_id"
                     /\ kv'.last_processed_post_id = JStr(pout.tasks[w].post.id)
                     /\ \E i \in 1..Len(pout.written) :
                            pout.written[i] = pout.tasks[w].prediction
                     /\ pout.tasks[w].prediction.post_id = kv'.last_processed_post_id
       /\ \A w \in Runs :
              (pout.tasks[w].pc # "idle" /\ pout'.tasks[w].outcome = "failed")
                  => kv'.last_processed_post_id = kv.last_processed_post_id
       /\ \A w \in Runs :
              (pout.tasks[w].pc = "get_last_id" /\ pout'.tasks[w].outcome = "skipped")
                  => JStr(pout.tasks[w].post.id) \in WrittenPostIds]_vars

\* the cron run on post t1 got its image and failed before recording the
\* id, and the run started by trigger_reddit_scan has processed t1 too
C28_Witness ==
    /\ pout.tasks["scheduled"].outcome = "failed"
    /\ pout.tasks["scheduled"].post = PostTable
    /\ aiRuns = 2
    /\ Len(pout.written) = 1
    /\ pout.written[1].post_id = JStr("t1")
    /\ pout.tasks["trigger_reddit_scan"].pc = "idle"
    /\ kv.last_processed_post_id = JStr("t1")
    /\ kv.latest_prediction = pout.written[1]

(***************************************************************************)
(* Properties of the image key across writes.                              *)
(***************************************************************************)
\* latest_prediction.image_key, undefined for a prediction without one
ImageKeyOfLatest ==
    IF kv.latest_prediction # JNull /\ "image_key" \in DOMAIN kv.latest_prediction
    THEN kv.latest_prediction.image_key
    ELSE JUndef

\* C27, as stated: whenever latest_image_key is set, it names the image
\* generated for the prediction stored in latest_prediction (it equals
\* latest_prediction.image_key); no later write (a webhook override, an MCP
\* post, a scheduled post without an image) leaves the key of an earlier post.
C27_AsStated == kv.latest_image_key # JNull => kv.latest_image_key = ImageKeyOfLatest

(***************************************************************************)
(* Properties of the slots parseRedditPost returns.                        *)
(***************************************************************************)
\* the text of a post of the parser harness without rows holds "diesel":
\* none of the lines that are no rows does, two of the titles do
MentionsDiesel(post) ==
    post.title \in {"Diesel to drop, regular up", "Biodiesel blend update"}

\* C29: parseRedditPost never returns gas and diesel both null: when no
\* table row matches, the free-text fallback fills exactly one slot, diesel
\* when the text holds diesel and gas otherwise, also when neither a
\* direction nor a price could be inferred.
C29_NeverBothNull ==
    pout # JNull =>
        /\ SlotsOf(pout) # {}
        /\ Len(RowsOf(pin)) = 0 =>
               IF MentionsDiesel(pin)
               THEN pout.diesel.t = "object" /\ pout.gas = JNull
               ELSE pout.gas.t = "object" /\ pout.diesel = JNull

\* "Weekly thread" without a body: gas is filled with no direction and no price
C29_Witness ==
    /\ pin.title = "Weekly thread"
    /\ pin.selftext.s = ""
    /\ pout # JNull
    /\ pout.gas = Slot(JNull, JNull, JNull)
    /\ pout.diesel = JNull

(***************************************************************************)
(* Properties of a webhook override of a post the job has processed.       *)
(***************************************************************************)
\* the job has processed a post and a webhook submission has since replaced
\* latest_prediction
Overridden ==
    /\ kv.last_processed_post_id # JNull
    /\ kv.latest_prediction # JNull
    /\ kv.latest_prediction.source = "webhook"

\* C30: after the scheduled job has processed post P and a webhook
\* submission has replaced latest_prediction, every later scheduled run that
\* still finds P as the newest matching post leaves latest_prediction equal
\* to the webhook's prediction; only a run that finds a post with another id
\* replaces it.
C30_OverrideKept ==
    /\ [](Overridden =>
             \A fetch \in Fetches, ai \in AIOutcomes :
                 (/\ fetch.ok
                  /\ FetchedPosts[fetch] # JNull
                  /\ JStr(FetchedPosts[fetch].id) = kv.last_processed_post_id)
                     => scheduled(kv, fetch, ai, clock).store.latest_prediction
                            = kv.latest_prediction)
    /\ [][(/\ Overridden
           /\ last'.run.outcome # "none"
           /\ kv'.latest_prediction # kv.latest_prediction)
              => /\ last'.run.outcome = "processed"
                 /\ last'.run.post_id # kv.last_processed_post_id
                 /\ kv'.latest_prediction.post_id = last'.run.post_id]_vars

\* the job processed t1, the webhook replaced the prediction, and a later run
\* that found t1 again left the webhook's prediction in place
C30_Witness ==
    /\ Overridden
    /\ last.run.outcome = "skipped"
    /\ last.run.post_id = JStr("t1")
    /\ kv.last_processed_post_id = JStr("t1")
    /\ \E i \in 1..Len(ReadHistory(kv)) : ReadHistory(kv)[i].post_id = JStr("t1")

=============================================================================
